---- MODULE Spec2Model ----
(***************************************************************************)
(* A model of src/generate_changelog.py: the chunking-and-merge pipeline   *)
(* of the weekly changelog generator.                                      *)
(*                                                                         *)
(*   SpecChunk  the chunking decision and the slicing done by              *)
(*              process_chunk, for every commit count and chunk size       *)
(*   SpecRetry  one call through the retry_api_call wrapper, one loop      *)
(*              iteration per step                                         *)
(*   SpecKind   generate_chunked_summary of one kind: the chunk workers,   *)
(*              the cache, the collection of the results and the merge     *)
(*   SpecMain   the two kinds side by side and the main thread             *)
(*   SpecMerge  hierarchical_merge_summaries alone, under weak fairness    *)
(*   SpecRedact one call of redact_api_key, on texts built from keys       *)
(*   SpecKey    get_chunk_cache_key on pairs of argument tuples            *)
(*   SpecStore  write_chunk_cache and read_chunk_cache in any order        *)
(*   SpecSweep  one call of cleanup_chunk_cache                            *)
(*   SpecFault  SpecKind over a cache directory whose operations can fail  *)
(*   SpecAuth   SpecMain against an API that fails with authentication     *)
(*              and not-found errors only                                  *)
(*   SpecBatch  the merger alone against an API that also fails without    *)
(*              the payload-too-large signature                            *)
(*   SpecPool   SpecKind on more chunks than the pool has workers          *)
(*   SpecFormat one call of process_commits_in_chunks on raw texts        *)
(*   SpecFile   the writing of CHANGELOG.md by consecutive runs            *)
(*   SpecRun    a run from its start: the sweep of the cache directory,    *)
(*              then generate_chunked_summary of one kind                  *)
(*   SpecSummary one call of generate_summary or merge_chunk_summaries    *)
(*              through the wrapper: truncation, request, validation       *)
(*                                                                         *)
(* A recursive call is an activation of its own; the interpreter's limit   *)
(* on the depth of the activations is not modelled.                        *)
(*                                                                         *)
(* Texts are modelled by what the code looks at.  An exception message is  *)
(* the set of failure markers it contains (the substrings the wrapper and  *)
(* the merger search for), the label the wrapper put in front of it, and   *)
(* whether it went through redact_api_key.                                 *)
(***************************************************************************)
EXTENDS Integers, Sequences, FiniteSets, TLC

\* ------------------------------------------------------------------ bounds

\* Largest commit count of SpecChunk.
MaxCommits == 12
\* Largest chunk size of SpecChunk (the program's own is COMMITS_PER_CHUNK).
MaxChunkSize == 5
\* Largest max_retries a wrapper is built with in SpecRetry.
MaxRetriesArg == 3
\* Largest commit count of SpecKind (one kind's generate_chunked_summary).
MaxKindCommits == 11
\* Largest commit count of SpecMain (both kinds and the main thread).
MaxMainCommits == 6
\* Most summaries, and largest batch_size, handed to the merger in SpecMerge.
MaxSummaries == 6
MaxBatchSize == 5
\* Most pieces a text handed to redact_api_key is put together from.
MaxPieces == 3
\* Most "|"-separated parts of an argument of get_chunk_cache_key in SpecKey.
MaxFieldParts == 2
\* SpecPool: commits, enough for more chunks than the pool has workers
MaxPoolCommits == 16
\* cleanup_chunk_cache: directory entries, and the largest max_age_hours
MaxEntries == 2
MaxAgeHours == 2
\* Longest raw commit text of SpecFormat, in characters, and its largest
\* chunk_size besides the default.
MaxRawChars == 8
MaxProcessChunkSize == 2
\* SpecFile: the runs made one after the other, and the weeks they fall in
MaxRuns == 3
MaxWeeks == 2
\* SpecRun: commits of a run that starts with the sweep of the cache
MaxRunCommits == 6

\* ------------------------------------------------------- program constants

COMMITS_PER_CHUNK == 5
MAX_CONCURRENT_CHUNKS == 3
\* max_retries of the decorators of generate_summary and merge_chunk_summaries
MAX_RETRIES == 3
\* the default batch_size of hierarchical_merge_summaries
DEFAULT_BATCH_SIZE == 5

VARIABLES
    \* SpecChunk
    c_commits,      \* commits_formatted: the commit records, in order
    c_size,         \* the chunk size
    c_pc,           \* "decide" | "slice" | "single" | "done"
    c_use,          \* use_chunking
    c_num,          \* num_chunks
    c_idx,          \* the next chunk_idx to be processed
    c_chunks,       \* the chunk_commits slices taken so far, by ordinal
    \* SpecRetry
    r_max,          \* max_retries of the wrapper under test
    rw,             \* the wrapper's state (see WrapperInit)
    r_hist,         \* the outcomes of the wrapped function so far, in order
    \* the pipeline (SpecKind, SpecMain, SpecMerge)
    p_commits,      \* commits_formatted, each record the id of its text
    p_lang,         \* OUTPUT_LANGUAGE
    p_kinds,        \* the kinds whose generate_chunked_summary runs
    p_api,          \* what a wrapped API call can result in during this run
    p_io,           \* how the file system can answer a cache operation in this run
    cache,          \* the cache directory: key -> content
    k_pc,           \* per kind: where generate_chunked_summary is
    w_pc,           \* per kind and chunk_idx: where process_chunk is; "done"
                    \* after a return of the try block, "failed" after the
                    \* return of the except block (line 1056)
    w_reg,          \* per kind and chunk_idx: the counter value loaded by +=
    w_res,          \* per kind and chunk_idx: the tuple process_chunk returns
    w_gen,          \* per kind and chunk_idx: the generate_summary calls made
    cache_hits,     \* per kind: the nonlocal counter
    cache_misses,   \* per kind: the nonlocal counter
    k_seen,         \* per kind: the futures as_completed has yielded
    k_dict,         \* per kind: chunk_summaries_dict
    k_list,         \* per kind: chunk_summaries, the list handed to the merger
    hm,             \* per kind: the frames of hierarchical_merge_summaries
    merge_called,   \* per kind: merge_chunk_summaries has been called
    k_out,          \* per kind: what generate_chunked_summary returned
    k_exc,          \* per kind: the exception it raised
    m_pc,           \* the main thread: "tech" | "business" | "write"
    tech_summary,
    business_summary,
    p_log,          \* the warnings printed so far: where, and redacted or not
    \* one call of a module-level function (SpecRedact)
    t_fn,           \* the function called, "none" when there is no such call
    t_in,           \* its arguments and the environment it reads
    t_out,          \* what it returned, <<>> until it has
    \* the file CHANGELOG.md over consecutive runs (SpecFile)
    changelog,      \* whether the file exists, and its lines
    f_runs,         \* the runs made so far
    f_last          \* the last run: its week, force_update and how it ended

chunkVars == <<c_commits, c_size, c_pc, c_use, c_num, c_idx, c_chunks>>
retryVars == <<r_max, rw, r_hist>>
pipeVars ==
    <<p_commits, p_lang, p_kinds, p_api, p_io, cache, k_pc, w_pc, w_reg, w_res,
      w_gen, merge_called, cache_hits, cache_misses, k_seen, k_dict, k_list, hm, k_out, k_exc, m_pc,
      tech_summary, business_summary, p_log>>
callVars == <<t_fn, t_in, t_out>>
fileVars == <<changelog, f_runs, f_last>>
vars == <<chunkVars, retryVars, pipeVars, callVars, fileVars>>

\* ------------------------------------------------------------ small helpers

Min(a, b) == IF a <= b THEN a ELSE b
Max(a, b) == IF a >= b THEN a ELSE b

\* Python's s[lo:hi] for 0 <= lo, as a 1-based TLA+ sequence.
Slice(s, lo, hi) == SubSeq(s, lo + 1, Min(hi, Len(s)))

RECURSIVE Flatten(_)
Flatten(ss) == IF ss = <<>> THEN <<>> ELSE Head(ss) \o Flatten(Tail(ss))

\* ------------------------------------------------------- chunk partitioner

\* use_chunking = total_commits > COMMITS_PER_CHUNK
UseChunking(total_commits, per_chunk) == total_commits > per_chunk

NumChunksFloor(total_commits, per_chunk) ==
    IF UseChunking(total_commits, per_chunk) THEN total_commits \div per_chunk ELSE 0

\* num_chunks = 0, and under chunking (total + per_chunk - 1) // per_chunk
NumChunks(total_commits, per_chunk) ==
    IF UseChunking(total_commits, per_chunk)
    THEN (total_commits + per_chunk - 1) \div per_chunk
    ELSE 0

\* process_chunk: start_idx, end_idx and chunk_commits of one chunk_idx
StartIdx(chunk_idx, per_chunk) == chunk_idx * per_chunk
EndIdx(chunk_idx, per_chunk, total_commits) ==
    Min(StartIdx(chunk_idx, per_chunk) + per_chunk, total_commits)
ChunkCommits(commits_list, chunk_idx, per_chunk) ==
    Slice(commits_list, StartIdx(chunk_idx, per_chunk),
          EndIdx(chunk_idx, per_chunk, Len(commits_list)))

ChunkIdle ==
    /\ c_commits = <<>> /\ c_size = 1 /\ c_pc = "off" /\ c_use = FALSE
    /\ c_num = 0 /\ c_idx = 0 /\ c_chunks = <<>>

InitChunk ==
    /\ \E n \in 0..MaxCommits : c_commits = [j \in 1..n |-> j]
    /\ c_size \in 1..MaxChunkSize
    /\ c_pc = "decide"
    /\ c_use = FALSE /\ c_num = 0 /\ c_idx = 0 /\ c_chunks = <<>>

\* lines 743-760: the chunking decision
DecideChunking ==
    /\ c_pc = "decide"
    /\ c_use' = UseChunking(Len(c_commits), c_size)
    /\ c_num' = NumChunks(Len(c_commits), c_size)
    /\ c_pc' = IF UseChunking(Len(c_commits), c_size) THEN "slice" ELSE "single"
    /\ UNCHANGED <<c_commits, c_size, c_idx, c_chunks>>

\* lines 1000-1005: without chunking the whole list is one prompt
SingleAnalysis ==
    /\ c_pc = "single"
    /\ c_pc' = "done"
    /\ UNCHANGED <<c_commits, c_size, c_use, c_num, c_idx, c_chunks>>

\* lines 1016-1018, for chunk_idx in range(num_chunks)
SliceChunk ==
    /\ c_pc = "slice"
    /\ c_idx < c_num
    /\ c_chunks' = Append(c_chunks, ChunkCommits(c_commits, c_idx, c_size))
    /\ c_idx' = c_idx + 1
    /\ UNCHANGED <<c_commits, c_size, c_pc, c_use, c_num>>

AllSliced ==
    /\ c_pc = "slice"
    /\ c_idx = c_num
    /\ c_pc' = "done"
    /\ UNCHANGED <<c_commits, c_size, c_use, c_num, c_idx, c_chunks>>

\* ------------------------------------------------------------ retry wrapper

\* The marker classes the wrapper searches a message for (lines 212-289):
\*   rate     "429" | "rate limit" | "too many requests"
\*   auth     "401" | "unauthorized" | "invalid api key"
\*   notfound "404" | "model not found" | "not available"
\*   large    "413" | "too large" | "entity too large"
\*   network  "timeout" | "connection" | "network"
Markers == {"rate", "auth", "notfound", "large", "network"}

\* The values a wrapped function may return.
Values == {"v1", "v2"}

\* What one invocation of the wrapped function does: it returns a value or
\* raises an exception whose message carries a set of markers.
Outcomes ==
    [ok : {TRUE}, value : Values, marks : {{}}]
      \cup [ok : {FALSE}, value : {"none"}, marks : SUBSET Markers]

\* str(e) of an exception raised by the wrapped function: no label, and the
\* text has not been through redact_api_key.
RawMessage(marks) == [marks |-> marks, label |-> "unlabelled", redacted |-> FALSE]

NoMessage == [marks |-> {}, label |-> "none", redacted |-> TRUE]

\* redact_api_key (lines 20-31): the text with the credential and every
\* sk-or-* key replaced; the markers are outside the key and stay.
RedactApiKey(msg) == [msg EXCEPT !.redacted = TRUE]

\* The markers the text of a label itself contains: "Rate limit exceeded"
\* holds "rate limit", "Payload too large error" holds "too large", "Network
\* error" holds "network"; "Authentication error" and "Model availability
\* error" hold none.
LabelMarks(label) ==
    CASE label = "Rate limit exceeded" -> {"rate"}
      [] label = "Payload too large error" -> {"large"}
      [] label = "Network error" -> {"network"}
      [] OTHER -> {}

\* Exception(f"<label>: {redact_api_key(str(e))}")
Labelled(label, msg) ==
    [marks |-> RedactApiKey(msg).marks \cup LabelMarks(label),
     label |-> label,
     redacted |-> RedactApiKey(msg).redacted]

WrapperInit ==
    [attempt |-> 0, calls |-> 0, sleeps |-> 0, pc |-> "call",
     value |-> "none", exc |-> NoMessage, printed |-> {}]

\* a wrapper that backs off before it raises
WrapperRaiseAfterSleep(w, msg, printed) ==
    [w EXCEPT !.calls = @ + 1, !.sleeps = @ + 1, !.pc = "raised", !.exc = msg,
              !.printed = @ \cup printed]

WrapperRaise(w, msg, printed) ==
    [w EXCEPT !.calls = @ + 1, !.pc = "raised", !.exc = msg,
              !.printed = @ \cup printed]

WrapperSleepUncounted(w, printed) ==
    [w EXCEPT !.calls = @ + 1, !.sleeps = @ + 1, !.printed = @ \cup printed]

WrapperSleep(w, printed) ==
    [w EXCEPT !.calls = @ + 1, !.sleeps = @ + 1, !.attempt = @ + 1,
              !.printed = @ \cup printed]

\* a wrapper that looks for the authentication markers first
WrapperStepAuthFirst(w, max_retries, o) ==
    LET e == RawMessage(o.marks)
        last == w.attempt = max_retries - 1
        shown == {RedactApiKey(e)}
    IN  IF o.ok
        THEN [w EXCEPT !.calls = @ + 1, !.pc = "returned", !.value = o.value]
        ELSE IF "auth" \in o.marks
        THEN WrapperRaise(w, Labelled("Authentication error", e), shown)
        ELSE IF "rate" \in o.marks
        THEN IF last
             THEN WrapperRaise(w, Labelled("Rate limit exceeded", e), {})
             ELSE WrapperSleep(w, {})
        ELSE IF "notfound" \in o.marks
        THEN WrapperRaise(w, Labelled("Model availability error", e), shown)
        ELSE IF "large" \in o.marks
        THEN WrapperRaise(w, Labelled("Payload too large error", e), shown)
        ELSE IF "network" \in o.marks
        THEN IF last
             THEN WrapperRaise(w, Labelled("Network error", e), {})
             ELSE WrapperSleep(w, shown)
        ELSE IF last
             THEN WrapperRaise(w, e, shown)
             ELSE WrapperSleep(w, shown)

\* One iteration of `for attempt in range(max_retries)` (lines 205-327): the
\* wrapped function is invoked once with outcome o.
WrapperStep(w, max_retries, o) ==
    LET e == RawMessage(o.marks)
        last == w.attempt = max_retries - 1
        shown == {RedactApiKey(e)}
    IN  IF o.ok
        THEN [w EXCEPT !.calls = @ + 1, !.pc = "returned", !.value = o.value]
        ELSE IF "rate" \in o.marks
        THEN IF last
             THEN WrapperRaise(w, Labelled("Rate limit exceeded", e), {})
             ELSE WrapperSleep(w, {})
        ELSE IF "auth" \in o.marks
        THEN WrapperRaise(w, Labelled("Authentication error", e), shown)
        ELSE IF "notfound" \in o.marks
        THEN WrapperRaise(w, Labelled("Model availability error", e), shown)
        ELSE IF "large" \in o.marks
        THEN WrapperRaise(w, Labelled("Payload too large error", e), shown)
        ELSE IF "network" \in o.marks
        THEN IF last
             THEN WrapperRaise(w, Labelled("Network error", e), {})
             ELSE WrapperSleep(w, shown)
        ELSE IF last
             THEN WrapperRaise(w, e, shown)
             ELSE WrapperSleep(w, shown)

RetryIdle ==
    /\ r_max = 0 /\ rw = WrapperInit /\ r_hist = <<>>

InitRetry ==
    /\ r_max \in 1..MaxRetriesArg
    /\ rw = WrapperInit
    /\ r_hist = <<>>

\* The loop body once: the wrapped function is invoked, with any outcome.
\* After the last iteration the loop is over (line 328 is not reached with
\* max_retries >= 1: the last iteration returns or raises).
AttemptCall ==
    /\ rw.pc = "call"
    /\ rw.attempt < r_max
    /\ \E o \in Outcomes :
         /\ rw' = WrapperStep(rw, r_max, o)
         /\ r_hist' = Append(r_hist, o)
    /\ UNCHANGED r_max

\* The wrapper run to its end on the outcomes the wrapped function has in
\* store for its successive invocations.
RECURSIVE RetryRun(_, _, _)
RetryRun(w, max_retries, outs) ==
    IF w.pc # "call" \/ outs = <<>>
    THEN w
    ELSE RetryRun(WrapperStep(w, max_retries, Head(outs)), max_retries, Tail(outs))

RetryApiCall(max_retries, outs) == RetryRun(WrapperInit, max_retries, outs)

\* What a caller of generate_summary or merge_chunk_summaries (both wrapped
\* with max_retries=3) can get when each invocation ends in one of the given
\* outcomes: a value, or the exception the wrapper raised; and whether the
\* texts the wrapper printed on the way were redacted.  Of the markers of the
\* exception's message the callers look for one only, the payload-too-large
\* marker (lines 660 and 691); the others are dropped here.
CallResults(outcomes) ==
    { LET w == RetryApiCall(MAX_RETRIES, s)
      IN  [ok |-> w.pc = "returned",
           exc |-> [w.exc EXCEPT !.marks = @ \cap {"large"}],
           printed |-> {m.redacted : m \in w.printed}] :
        s \in [1..MAX_RETRIES -> outcomes] }

\* every outcome of an invocation
ExternalResults == CallResults({o \in Outcomes : o.value # "v2"})

\* an API that answers, fails with a message without markers, or rejects the
\* payload as too large
PlainResults ==
    CallResults({o \in Outcomes : o.value # "v2" /\ o.marks \in {{}, {"large"}}})

\* an API that answers or fails with an authentication or a not-found error
\* (lines 236-269), so that every failed call of the run is one of the two
AuthResults ==
    CallResults({o \in Outcomes : o.value # "v2" /\ o.marks \in {{}, {"auth"}, {"notfound"}}})

\* an API that answers every call
AnsweringResults == CallResults({o \in Outcomes : o.ok /\ o.value # "v2"})

\* an API that answers or rejects the payload as too large
LargeResults ==
    CallResults({o \in Outcomes : o.value # "v2" /\ o.marks \in {{"large"}}}
                  \cup {o \in Outcomes : o.ok /\ o.value # "v2"})

\* ------------------------------------------------------- summaries, cache

Kinds == {"technical", "business"}

\* get_language_config: the languages with a table of their own, and two
\* values of OUTPUT_LANGUAGE tried here, one of them without a table.
SupportedLanguages == {"English", "Dutch", "German", "French", "Spanish"}
Languages == {"English", "German", "Klingon"}
GetLanguageConfig(language) ==
    IF language \in SupportedLanguages THEN language ELSE "English"

\* A text produced for the changelog, by what made it.
\*   generated   a validated reply to the prompt of one kind for the commits
\*               lo..hi of chunk number `chunk` (0: no chunking)
\*   placeholder "[Chunk <chunk> analysis failed - commits <lo>-<hi> ...]"
\*   prior       the content a cache file held before the run started
\*   merged      a validated reply to a merge prompt of one kind
\*   fallback    config["fallback_tech"] / config["fallback_business"]
\*   empty       ""
\* ws tells whether the text has white space in front of or behind the rest
\* (a text of white space only is the empty text with ws).
NoSummary ==
    [how |-> "none", kind |-> "none", chunk |-> 0, lo |-> 0, hi |-> 0,
     text |-> <<>>, ws |-> FALSE]
Generated(kind, chunk, lo, hi, text) ==
    [how |-> "generated", kind |-> kind, chunk |-> chunk, lo |-> lo, hi |-> hi,
     text |-> text, ws |-> FALSE]
PlaceholderUnranged(chunk, lo, hi) ==
    [how |-> "placeholder", kind |-> "none", chunk |-> chunk, lo |-> 1, hi |-> hi,
     text |-> <<>>, ws |-> FALSE]
Placeholder(chunk, lo, hi) ==
    [how |-> "placeholder", kind |-> "none", chunk |-> chunk, lo |-> lo, hi |-> hi,
     text |-> <<>>, ws |-> FALSE]
PriorContent(kind, text) ==
    [how |-> "prior", kind |-> kind, chunk |-> 0, lo |-> 0, hi |-> 0,
     text |-> text, ws |-> FALSE]
Merged(kind) ==
    [how |-> "merged", kind |-> kind, chunk |-> 0, lo |-> 0, hi |-> 0,
     text |-> <<>>, ws |-> FALSE]
FallbackDefault(kind, language) ==
    [how |-> "fallback", kind |-> kind, chunk |-> 0, lo |-> 0, hi |-> 0,
     text |-> <<"English">>, ws |-> FALSE]
Fallback(kind, language) ==
    [how |-> "fallback", kind |-> kind, chunk |-> 0, lo |-> 0, hi |-> 0,
     text |-> <<GetLanguageConfig(language)>>, ws |-> FALSE]
EmptyString ==
    [how |-> "empty", kind |-> "none", chunk |-> 0, lo |-> 0, hi |-> 0,
     text |-> <<>>, ws |-> FALSE]

\* the number of hex characters kept of the digest
KEY_HEX_CHARS == 16

\* hashlib.sha256(content.encode()).hexdigest()[:16], the hash taken as
\* injective: the key stands for the content it was made from
Sha256Hex(content) == [sha256 |-> content, chars |-> KEY_HEX_CHARS]

GetChunkCacheKeyUntyped(chunk_commits_text, summary_type, model, output_language) ==
    Sha256Hex(chunk_commits_text \o <<"|">> \o model \o <<"|">> \o output_language)

\* get_chunk_cache_key (lines 352-367): the four texts, each the sequence
\* of its characters, joined with "|" and hashed
GetChunkCacheKey(chunk_commits_text, summary_type, model, output_language) ==
    Sha256Hex(chunk_commits_text \o <<"|">> \o summary_type \o <<"|">> \o model
                \o <<"|">> \o output_language)

\* str.strip()
Strip(s) == [s EXCEPT !.ws = FALSE]

ReadChunkCacheUnstripped(files, key) ==
    IF key \in DOMAIN files /\ files[key] # EmptyString THEN files[key] ELSE NoSummary

\* read_chunk_cache (lines 391-401) when the file system answers: the
\* stripped content of the key's file, None if there is no file or nothing
\* is left of the content
ReadChunkCache(files, key) ==
    IF key \in DOMAIN files /\ Strip(files[key]) # EmptyString
    THEN Strip(files[key])
    ELSE NoSummary

\* write_chunk_cache: the key's file holds the content
\* a write that leaves the directory as it was
WriteChunkCacheDropped(files, key, content) == files

WriteChunkCache(files, key, content) ==
    [q \in DOMAIN files \cup {key} |-> IF q = key THEN content ELSE files[q]]

\* ------------------------------------------------- redact_api_key on texts

\* A text is the sequence of its characters.
KeyPattern == <<"s", "k", "-", "o", "r", "-">>
RedactionMarker ==
    <<".", ".", ".", "[", "R", "E", "D", "A", "C", "T", "E", "D", "]">>

\* the characters outside [a-zA-Z0-9_-] that the texts are made of
NonKeyChars == {" ", ".", "[", "]", ":", "|"}
IsKeyChar(c) == c \notin NonKeyChars

\* whether sub occurs in text at position i
OccursAt(text, sub, i) ==
    /\ i >= 1
    /\ i + Len(sub) - 1 <= Len(text)
    /\ SubSeq(text, i, i + Len(sub) - 1) = sub

\* str.replace(old, new) from position i on: the occurrences of old, taken
\* from the left and not overlapping (old is not empty)
RECURSIVE StrReplaceFrom(_, _, _, _)
StrReplaceFrom(text, old, new, i) ==
    IF i > Len(text) THEN <<>>
    ELSE IF OccursAt(text, old, i)
    THEN new \o StrReplaceFrom(text, old, new, i + Len(old))
    ELSE <<text[i]>> \o StrReplaceFrom(text, old, new, i + 1)

StrReplace(text, old, new) == StrReplaceFrom(text, old, new, 1)

\* the end of the longest run of key characters that starts at position i
RECURSIVE RunEnd(_, _)
RunEnd(text, i) ==
    IF i <= Len(text) /\ IsKeyChar(text[i]) THEN RunEnd(text, i + 1) ELSE i - 1

\* re.sub(r"sk-or-[a-zA-Z0-9_-]+", "sk-or-...[REDACTED]", text) from
\* position i on: leftmost matches, each as long as it can be
RECURSIVE ReSubFrom(_, _)
ReSubFrom(text, i) ==
    IF i > Len(text) THEN <<>>
    ELSE IF OccursAt(text, KeyPattern, i)
            /\ RunEnd(text, i + Len(KeyPattern)) >= i + Len(KeyPattern)
    THEN KeyPattern \o RedactionMarker
           \o ReSubFrom(text, RunEnd(text, i + Len(KeyPattern)) + 1)
    ELSE <<text[i]>> \o ReSubFrom(text, i + 1)

\* lines 20-31, with api_key the value of OPENROUTER_API_KEY
redact_api_key(api_key, text) ==
    LET redacted == SubSeq(api_key, 1, Min(4, Len(api_key))) \o RedactionMarker
        replaced == IF api_key # <<>> /\ Len(api_key) > 8
                    THEN StrReplace(text, api_key, redacted)
                    ELSE text
    IN  ReSubFrom(replaced, 1)

\* The credentials tried: a provider key, a key of another form, a provider
\* key of 8 characters (not longer than 8), and no key.
ApiKeys ==
    { <<"s", "k", "-", "o", "r", "-", "v", "1", "-", "a", "b">>,
      <<"t", "o", "k", "_", "1", "2", "3", "4", "5">>,
      <<"s", "k", "-", "o", "r", "-", "v", "1">>,
      <<>> }

\* The pieces the texts are put together from: the credential, another
\* provider key, two more key characters, a blank and a colon.
TextPieces(api_key) ==
    { api_key,
      <<"s", "k", "-", "o", "r", "-", "z", "z">>,
      <<"c", "d">>,
      <<" ">>,
      <<":">> }

RECURSIVE Texts(_, _)
Texts(api_key, n) ==
    IF n = 0 THEN {<<>>}
    ELSE Texts(api_key, n - 1)
           \cup {t \o piece : t \in Texts(api_key, n - 1), piece \in TextPieces(api_key)}

CallIdle == t_fn = "none" /\ t_in = <<>> /\ t_out = <<>>

InitRedact ==
    /\ t_fn = "redact_api_key"
    /\ \E api_key \in ApiKeys : \E text \in Texts(api_key, MaxPieces) :
         t_in = [api_key |-> api_key, text |-> text]
    /\ t_out = <<>>

\* the call returns
Redact ==
    /\ t_fn = "redact_api_key"
    /\ t_out = <<>>
    /\ t_out' = <<redact_api_key(t_in.api_key, t_in.text)>>
    /\ UNCHANGED <<t_fn, t_in>>

\* -------------------------------------------------- get_chunk_cache_key alone

\* The texts tried for each of the four arguments: up to MaxFieldParts
\* characters "a" with a "|" between them.
RECURSIVE FieldOfParts(_)
FieldOfParts(n) ==
    IF n = 0 THEN <<>>
    ELSE IF n = 1 THEN <<"a">>
    ELSE FieldOfParts(n - 1) \o <<"|", "a">>
KeyFields == {FieldOfParts(n) : n \in 0..MaxFieldParts}
KeyTuples == KeyFields \X KeyFields \X KeyFields \X KeyFields

InitKey ==
    /\ t_fn = "get_chunk_cache_key"
    /\ \E x \in KeyTuples : \E y \in KeyTuples : t_in = <<x, y>>
    /\ t_out = <<>>

\* two calls return
MakeKeys ==
    /\ t_fn = "get_chunk_cache_key"
    /\ t_out = <<>>
    /\ t_out' = [j \in 1..2 |->
                    GetChunkCacheKey(t_in[j][1], t_in[j][2], t_in[j][3], t_in[j][4])]
    /\ UNCHANGED <<t_fn, t_in>>

\* ------------------------------------------------------- the cache alone

\* the keys and the contents tried: a text, the text with white space around
\* it, the empty text and white space only
StoreKeys ==
    {GetChunkCacheKey(text, <<k>>, <<"MODEL">>, <<"English">>) :
        text \in {<<"a">>, <<"b">>}, k \in Kinds}
StoreContents ==
    LET text == Generated("technical", 1, 1, 1, <<1>>)
    IN  {text, [text EXCEPT !.ws = TRUE], EmptyString, [EmptyString EXCEPT !.ws = TRUE]}

InitStore ==
    /\ t_fn = "cache"
    /\ t_in = <<>>
    /\ t_out = <<>>
    /\ cache = <<>>

\* write_chunk_cache(cache_key, content)
WriteCall ==
    /\ t_fn = "cache"
    /\ \E cache_key \in StoreKeys : \E content \in StoreContents :
         /\ cache' = WriteChunkCache(cache, cache_key, content)
         /\ t_in' = [op |-> "write", cache_key |-> cache_key, content |-> content]
    /\ t_out' = <<>>
    /\ UNCHANGED t_fn

\* read_chunk_cache(cache_key)
ReadCall ==
    /\ t_fn = "cache"
    /\ \E cache_key \in StoreKeys :
         /\ t_out' = <<ReadChunkCache(cache, cache_key)>>
         /\ t_in' = [op |-> "read", cache_key |-> cache_key, content |-> NoSummary]
    /\ UNCHANGED <<t_fn, cache>>

\* ------------------------------- generate_summary, merge_chunk_summaries

\* lines 937 and 593
MAX_PROMPT_CHARS == 100000
MAX_MERGE_PROMPT_CHARS == 100000
\* lines 945 and 600: the length of "\n\n[Extended data truncated due to size
\* limits]" and of "\n\n[Some chunk summaries truncated due to size limits]"
EXTENDED_MARKER_CHARS == 46
MERGE_MARKER_CHARS == 53
\* lines 949-950 and 604-605: estimated_tokens = len(prompt) // 4, at most 120000
CHARS_PER_TOKEN == 4
MAX_ESTIMATED_TOKENS == 120000
\* lines 985 and 634
MIN_RESPONSE_CHARS == 50

WrappedFunctions == {"generate_summary", "merge_chunk_summaries"}

MaxChars(fn) ==
    IF fn = "generate_summary" THEN MAX_PROMPT_CHARS ELSE MAX_MERGE_PROMPT_CHARS
MarkerChars(fn) ==
    IF fn = "generate_summary" THEN EXTENDED_MARKER_CHARS ELSE MERGE_MARKER_CHARS

\* The text of a request: the first `head` characters of the prompt the
\* function was called with, with the truncation marker after them or not.
RequestChars(fn, text) == text.head + (IF text.marker THEN MarkerChars(fn) ELSE 0)

\* a truncation that appends no marker
TruncateBare(fn, prompt_chars) ==
    [head |-> Min(prompt_chars, MaxChars(fn)), marker |-> FALSE]

\* lines 938-946 and 594-601: prompt[:MAX_PROMPT_CHARS] + marker when the
\* prompt is longer than MAX_PROMPT_CHARS
Truncate(fn, prompt_chars) ==
    IF prompt_chars > MaxChars(fn)
    THEN [head |-> MaxChars(fn), marker |-> TRUE]
    ELSE [head |-> prompt_chars, marker |-> FALSE]

\* message.content of a response: None, or a text of `body` characters with
\* `pad` characters of white space on each side
Contents ==
    [absent : {FALSE}, pad : {0, 2},
     body : {0, MIN_RESPONSE_CHARS - 1, MIN_RESPONSE_CHARS, MIN_RESPONSE_CHARS + 1}]
      \cup {[absent |-> TRUE, pad |-> 0, body |-> 0]}

\* what the API does with a request: it fails with a message, or answers
ApiReplies ==
    [error : {TRUE}, marks : {{}, {"rate"}, {"auth"}, {"network"}, {"large"}},
     content : {[absent |-> TRUE, pad |-> 0, body |-> 0]}]
      \cup [error : {FALSE}, marks : {{}}, content : Contents]

\* content.strip()
StripContent(content) == [content EXCEPT !.pad = 0]
ContentChars(content) == content.body + 2 * content.pad

\* a validation of the text as it came, white space included
ResponseOutcomeUnstripped(reply) ==
    IF reply.error
    THEN [ok |-> FALSE, value |-> "none", marks |-> reply.marks]
    ELSE IF reply.content.absent \/ ContentChars(reply.content) < MIN_RESPONSE_CHARS
    THEN [ok |-> FALSE, value |-> "none", marks |-> {}]
    ELSE [ok |-> TRUE, value |-> StripContent(reply.content), marks |-> {}]

\* lines 981-994 and 631-637: the stripped content, or the ValueError
\* "... too short or empty ..." whose text holds none of the wrapper's markers
ResponseOutcome(reply) ==
    LET response_content ==
            IF reply.content.absent
            THEN [absent |-> FALSE, pad |-> 0, body |-> 0]
            ELSE StripContent(reply.content)
    IN  IF reply.error
        THEN [ok |-> FALSE, value |-> "none", marks |-> reply.marks]
        ELSE IF ContentChars(response_content) = 0
                \/ ContentChars(response_content) < MIN_RESPONSE_CHARS
        THEN [ok |-> FALSE, value |-> "none", marks |-> {}]
        ELSE [ok |-> TRUE, value |-> response_content, marks |-> {}]

\* the prompts a call is made with, around the ceiling and far above it
PromptChars(fn) ==
    {1, MaxChars(fn) - 1, MaxChars(fn), MaxChars(fn) + 1,
     CHARS_PER_TOKEN * (MAX_ESTIMATED_TOKENS + 1)}

\* a call of one of the two wrapped functions (both with max_retries=3)
InitSummary ==
    /\ r_max = MAX_RETRIES
    /\ rw = WrapperInit
    /\ r_hist = <<>>
    /\ t_fn \in WrappedFunctions
    /\ \E chars \in PromptChars(t_fn) : t_in = [prompt |-> chars]
    /\ t_out = <<>>

\* One invocation of the wrapped function by the wrapper's loop: the prompt
\* is cut, the size checked, the request sent, the response validated.
\* t_out collects the requests sent.
AttemptSummary ==
    /\ t_fn \in WrappedFunctions
    /\ rw.pc = "call"
    /\ rw.attempt < r_max
    /\ LET sent == Truncate(t_fn, t_in.prompt)
           estimated_tokens == RequestChars(t_fn, sent) \div CHARS_PER_TOKEN
       IN  IF estimated_tokens > MAX_ESTIMATED_TOKENS
           THEN /\ rw' = WrapperStep(rw, r_max,
                            [ok |-> FALSE, value |-> "none", marks |-> {"large"}])
                /\ r_hist' = Append(r_hist, [sent |-> FALSE, valid |-> FALSE])
                /\ UNCHANGED t_out
           ELSE \E reply \in ApiReplies :
                  /\ rw' = WrapperStep(rw, r_max, ResponseOutcome(reply))
                  /\ r_hist' = Append(r_hist,
                         [sent |-> TRUE, valid |-> ResponseOutcome(reply).ok,
                          reply |-> reply])
                  /\ t_out' = Append(t_out, sent)
    /\ UNCHANGED <<r_max, t_fn, t_in>>

\* ------------------------------------------------ cleanup_chunk_cache alone

\* line 428: max_age_seconds = max_age_hours * 3600
SECONDS_PER_HOUR == 3600

\* One directory entry: whether its name ends with ".txt", its age in seconds
\* relative to max_age_seconds (current_time - getmtime), and how the file
\* system answers for it: "ok", "getmtime_error" or "remove_error".
EntryKinds(max_age_seconds) ==
    [txt : {TRUE},
     file_age : {max_age_seconds - 1, max_age_seconds, max_age_seconds + 1},
     access : {"ok", "getmtime_error", "remove_error"}]
    \cup {[txt |-> FALSE, file_age |-> max_age_seconds + 1, access |-> "ok"]}

\* the directory: "ok", "listdir_error" (missing or unreadable when listed) or
\* "makedirs_error" (it cannot be created, line 377)
DirAnswers == {"ok", "listdir_error", "makedirs_error"}

InitSweep ==
    /\ t_fn = "cleanup_chunk_cache"
    /\ \E max_age_hours \in 1..MaxAgeHours : \E n \in 0..MaxEntries :
       \E dir \in DirAnswers :
       \E entries \in [1..n -> EntryKinds(max_age_hours * SECONDS_PER_HOUR)] :
         t_in = [max_age_hours |-> max_age_hours, dir |-> dir, entries |-> entries]
    /\ t_out = [pc |-> "called", todo |-> {}, present |-> DOMAIN t_in.entries,
                removed_count |-> 0, printed |-> FALSE]

\* lines 427-434: the directory is made and listed
SweepList ==
    /\ t_fn = "cleanup_chunk_cache"
    /\ t_out.pc = "called"
    /\ t_out' = [t_out EXCEPT
           !.pc = IF t_in.dir = "makedirs_error" THEN "raised"
                  ELSE IF t_in.dir = "listdir_error" THEN "after_loop" ELSE "loop",
           !.todo = IF t_in.dir = "ok" THEN DOMAIN t_in.entries ELSE {}]
    /\ UNCHANGED <<t_fn, t_in>>

\* lines 434-443: one filename of the listing, in the listing's order
SweepEntry ==
    /\ t_fn = "cleanup_chunk_cache"
    /\ t_out.pc = "loop"
    /\ \E filename \in t_out.todo :
         LET entry == t_in.entries[filename]
             max_age_seconds == t_in.max_age_hours * SECONDS_PER_HOUR
             removes == /\ entry.txt
                        /\ entry.access # "getmtime_error"
                        /\ entry.file_age > max_age_seconds
                        /\ entry.access # "remove_error"
         IN  t_out' = [t_out EXCEPT
                 !.todo = @ \ {filename},
                 !.present = IF removes THEN @ \ {filename} ELSE @,
                 !.removed_count = IF removes THEN @ + 1 ELSE @,
                 !.pc = IF t_out.todo = {filename} THEN "after_loop" ELSE @]
    /\ UNCHANGED <<t_fn, t_in>>

\* an empty listing ends the loop at once
SweepEmpty ==
    /\ t_fn = "cleanup_chunk_cache"
    /\ t_out.pc = "loop" /\ t_out.todo = {}
    /\ t_out' = [t_out EXCEPT !.pc = "after_loop"]
    /\ UNCHANGED <<t_fn, t_in>>

\* lines 446-447: the count is reported, the function returns
SweepReturn ==
    /\ t_fn = "cleanup_chunk_cache"
    /\ t_out.pc = "after_loop"
    /\ t_out' = [t_out EXCEPT !.pc = "returned", !.printed = t_out.removed_count > 0]
    /\ UNCHANGED <<t_fn, t_in>>

\* ------------------------------------------ process_commits_in_chunks alone

\* chunk_size when the caller gives none
DEFAULT_PROCESS_CHUNK_SIZE == 50

\* The characters of the raw commit texts tried: one letter, the field
\* delimiter and the line break.
RawChars == {"a", "|", "\n"}

\* what str.strip() removes at both ends
Whitespace == {" ", "\n"}

RECURSIVE LStrip(_)
LStrip(s) ==
    IF s # <<>> /\ Head(s) \in Whitespace THEN LStrip(Tail(s)) ELSE s

RECURSIVE RStrip(_)
RStrip(s) ==
    IF s # <<>> /\ s[Len(s)] \in Whitespace
    THEN RStrip(SubSeq(s, 1, Len(s) - 1))
    ELSE s

\* str.strip()
StrStrip(s) == RStrip(LStrip(s))

\* str.split(sep) for a one-character sep: the parts between the separators,
\* empty parts included, one part more than there are separators
RECURSIVE StrSplitFrom(_, _, _, _)
StrSplitFrom(s, sep, i, part) ==
    IF i > Len(s) THEN <<part>>
    ELSE IF s[i] = sep THEN <<part>> \o StrSplitFrom(s, sep, i + 1, <<>>)
    ELSE StrSplitFrom(s, sep, i + 1, Append(part, s[i]))

StrSplit(s, sep) == StrSplitFrom(s, sep, 1, <<>>)

\* "|" in line
HasPipe(line) == \E i \in 1..Len(line) : line[i] = "|"

\* repo_url, the same for every line
RepoUrl == <<"u">>

\* the bullet character put in front of every formatted entry
Bullet == "bullet"

\* the entry appended to local_commits_formatted for every line, raw or not
FormatLineRaw(line) == <<Bullet, " ">> \o line

\* the entry appended to local_commits_formatted for one line
FormatLine(line) ==
    LET parts == StrSplit(line, "|")
    IN  IF HasPipe(line) /\ Len(parts) >= 5
        THEN <<Bullet, " ">> \o parts[2] \o <<" ", "(">> \o parts[3]
                 \o <<",", " ">> \o parts[4] \o <<")">>
        ELSE <<Bullet, " ">> \o line

\* the entry appended to local_commit_links for one line
LinkLine(line, repo_url) ==
    LET parts == StrSplit(line, "|")
    IN  IF HasPipe(line) /\ Len(parts) >= 5
        THEN <<"-", " ", "[">> \o parts[5] \o <<"]", "(">> \o repo_url
                 \o <<"/", "commit", "/">> \o parts[1] \o <<")", " ">>
                 \o parts[2] \o <<" ", "-", " ">> \o parts[3]
        ELSE <<"-", " ">> \o line

\* the loop over range(0, len(lines), chunk_size) from offset i on: the
\* entries of the lines of one slice after the other
RECURSIVE ProcessFrom(_, _, _, _)
ProcessFrom(lines, repo_url, chunk_size, i) ==
    IF i >= Len(lines)
    THEN [formatted |-> <<>>, links |-> <<>>]
    ELSE LET chunk == Slice(lines, i, i + chunk_size)
             rest  == ProcessFrom(lines, repo_url, chunk_size, i + chunk_size)
         IN  [formatted |->
                  [j \in 1..Len(chunk) |-> FormatLine(chunk[j])]
                      \o rest.formatted,
              links |->
                  [j \in 1..Len(chunk) |-> LinkLine(chunk[j], repo_url)]
                      \o rest.links]

ProcessCommitsInChunks(commits_raw, repo_url, chunk_size) ==
    LET lines == IF StrStrip(commits_raw) # <<>>
                 THEN StrSplit(StrStrip(commits_raw), "\n")
                 ELSE <<>>
    IN  ProcessFrom(lines, repo_url, chunk_size, 0)

\* every text of up to n characters
RECURSIVE RawTexts(_)
RawTexts(n) ==
    IF n = 0 THEN {<<>>}
    ELSE RawTexts(n - 1)
             \cup {Append(s, c) : s \in {x \in RawTexts(n - 1) : Len(x) = n - 1},
                                  c \in RawChars}

ProcessChunkSizes == 1..MaxProcessChunkSize \cup {DEFAULT_PROCESS_CHUNK_SIZE}

InitFormat ==
    /\ t_fn = "process_commits_in_chunks"
    /\ \E commits_raw \in RawTexts(MaxRawChars) :
         \E chunk_size \in ProcessChunkSizes :
           t_in = [commits_raw |-> commits_raw, chunk_size |-> chunk_size]
    /\ t_out = <<>>

\* the call returns
ProcessCommits ==
    /\ t_fn = "process_commits_in_chunks"
    /\ t_out = <<>>
    /\ t_out' = <<ProcessCommitsInChunks(t_in.commits_raw, RepoUrl,
                                         t_in.chunk_size)>>
    /\ UNCHANGED <<t_fn, t_in>>

\* ------------------------------------------------- the changelog file

\* A line of CHANGELOG.md is modelled by what the code looks at, its kind:
\*   "title"   starts with "# "            "auto"   config["auto_updated"]
\*   "header"  starts with the week header of its week
\*   "h2"      starts with "## " and is no week header
\*   "rule"    starts with "---"           "blank"  the empty line
\*   "text"    any other line (the "### " headings, the summaries' prose,
\*             the commit links)
\* and by the run that wrote it, which the code cannot see (0: no entry).
Line(kind, week, entry) == [kind |-> kind, week |-> week, entry |-> entry]

\* the texts a summary can be: prose, prose with a horizontal rule in it,
\* prose with a second-level heading in it
SummaryTexts == {<<"text">>, <<"text", "rule", "text">>, <<"text", "h2", "text">>}

SummaryLines(text, entry) == [j \in 1..Len(text) |-> Line(text[j], 0, entry)]

\* week_header in existing_content
HeaderPresent(lines, week_num) ==
    \E j \in 1..Len(lines) :
        lines[j].kind = "header" /\ lines[j].week = week_num

StartsWithWeekHeader(line, week_num) ==
    line.kind = "header" /\ line.week = week_num
StartsWithH2(line) == line.kind \in {"header", "h2"}
StartsWithRule(line) == line.kind = "rule"

\* the removal loop of the force mode over the lines from here on
RECURSIVE RemoveEntry(_, _, _)
RemoveEntry(lines, week_num, skip_section) ==
    IF lines = <<>> THEN <<>>
    ELSE LET line == Head(lines)
             rest == Tail(lines)
         IN  IF StartsWithWeekHeader(line, week_num)
             THEN RemoveEntry(rest, week_num, TRUE)
             ELSE IF StartsWithH2(line) /\ skip_section
             THEN <<line>> \o RemoveEntry(rest, week_num, FALSE)
             ELSE IF StartsWithRule(line) /\ skip_section
             THEN RemoveEntry(rest, week_num, FALSE)
             ELSE IF ~skip_section
             THEN <<line>> \o RemoveEntry(rest, week_num, FALSE)
             ELSE RemoveEntry(rest, week_num, skip_section)

\* the content of a file that is created
FreshContent == <<Line("title", 0, 0), Line("blank", 0, 0),
                  Line("auto", 0, 0), Line("blank", 0, 0)>>

\* changelog_entry, without the optional statistics and chunking note
ChangelogEntry(week_num, tech, business, entry) ==
    <<Line("header", week_num, entry), Line("blank", 0, entry),
      Line("text", 0, entry), Line("blank", 0, entry),
      Line("text", 0, entry)>>
        \o SummaryLines(tech, entry)
        \o <<Line("blank", 0, entry), Line("text", 0, entry)>>
        \o SummaryLines(business, entry)
        \o <<Line("blank", 0, entry), Line("text", 0, entry),
             Line("text", 0, entry), Line("blank", 0, entry),
             Line("rule", 0, entry)>>

\* the loop that finds the insertion point, from line i (counted from 0) on
RECURSIVE HeaderEndFrom(_, _, _)
HeaderEndFrom(lines, i, header_end) ==
    IF i >= Len(lines) THEN header_end
    ELSE IF lines[i + 1].kind \in {"title", "auto"}
    THEN HeaderEndFrom(lines, i + 1, i + 1)
    ELSE IF StartsWithH2(lines[i + 1]) \/ (i > 0 /\ lines[i].kind = "auto")
    THEN header_end
    ELSE HeaderEndFrom(lines, i + 1, header_end)

InsertEntry(lines, changelog_entry) ==
    LET header_end == HeaderEndFrom(lines, 0, 0)
    IN  SubSeq(lines, 1, header_end)
            \o <<Line("blank", 0, 0)>> \o changelog_entry
            \o <<Line("blank", 0, 0)>>
            \o SubSeq(lines, header_end + 1, Len(lines))

FileIdle ==
    /\ changelog = [exists |-> FALSE, lines |-> <<>>]
    /\ f_runs = 0
    /\ f_last = [week_num |-> 0, force_update |-> FALSE, outcome |-> "none"]

\* the first run finds no CHANGELOG.md
InitFile == FileIdle

\* One run from the duplicate check to the written file.  The weeks of
\* consecutive runs do not decrease.
WriteChangelog ==
    /\ f_runs < MaxRuns
    /\ \E week_num \in 1..MaxWeeks, force_update \in BOOLEAN,
          tech \in SummaryTexts, business \in SummaryTexts :
         /\ week_num >= f_last.week_num
         /\ f_runs' = f_runs + 1
         /\ LET existing == IF changelog.exists THEN changelog.lines
                            ELSE FreshContent
                present  == changelog.exists
                              /\ HeaderPresent(changelog.lines, week_num)
            IN  IF present /\ ~force_update
                THEN /\ f_last' = [week_num |-> week_num,
                                   force_update |-> force_update,
                                   outcome |-> "exit"]
                     /\ UNCHANGED changelog
                ELSE LET kept == IF present
                                 THEN RemoveEntry(existing, week_num, FALSE)
                                 ELSE existing
                         entry == ChangelogEntry(week_num, tech, business,
                                                 f_runs + 1)
                     IN  /\ changelog' =
                               [exists |-> TRUE,
                                lines |-> InsertEntry(kept, entry)]
                         /\ f_last' = [week_num |-> week_num,
                                       force_update |-> force_update,
                                       outcome |-> "written"]

\* ----------------------------------------------------------- the pipeline

TotalCommits == Len(p_commits)
PUse == UseChunking(TotalCommits, COMMITS_PER_CHUNK)
PNum == NumChunks(TotalCommits, COMMITS_PER_CHUNK)
ChunkIds == 0..(PNum - 1)
ChunkText(chunk_idx) == ChunkCommits(p_commits, chunk_idx, COMMITS_PER_CHUNK)
\* line 1020: "\n".join(chunk_commits), a commit record being one character
CommitsText(chunk_commits) ==
    [j \in 1..Len(chunk_commits) |-> ToString(chunk_commits[j])]
ChunkKey(kind, chunk_idx) ==
    GetChunkCacheKey(CommitsText(ChunkText(chunk_idx)), <<kind>>, <<"MODEL">>,
                     <<p_lang>>)

\* the chunk tasks of a kind that hold a worker of its pool
\* futures that count as over while generate_summary is still running
FinishedEarly == {"done", "failed", "gen"}

Finished == {"done", "failed"}

\* a future is over when process_chunk returned, or when an exception left it
Ended == Finished \cup {"crashed"}
\* a pool that never counts a worker as busy
RunningNone(kind) == {}

Running(kind) == {i \in ChunkIds : w_pc[kind][i] \notin {"queued"} \cup Ended}

\* How the file system answers one cache operation: "ok"; "open_error", where
\* exists/open/read/write inside the operation's try block fails (lines 393-399
\* and 413-417); "makedirs_error", where os.makedirs of get_chunk_cache_dir
\* fails (line 377), which the operations call before their try block (lines
\* 389 and 410).
IoAnswers == {"ok", "open_error", "makedirs_error"}

\* the OSError of a failed cache operation: no API text, never redacted
IoMessage == RawMessage({})

\* the lines the wrapper printed during one call
RetryLog(r) == {[site |-> "retry", redacted |-> b] : b \in r.printed}

\* lines 1000-1005: no chunking, one generate_summary call over all commits
GenerateSingle(kind) ==
    /\ k_pc[kind] = "single"
    /\ \E r \in p_api :
         /\ k_pc' = [k_pc EXCEPT ![kind] = IF r.ok THEN "returned" ELSE "raised"]
         /\ k_out' = [k_out EXCEPT ![kind] =
                IF r.ok THEN Generated(kind, 0, 1, TotalCommits, p_commits) ELSE @]
         /\ k_exc' = [k_exc EXCEPT ![kind] = IF r.ok THEN @ ELSE r.exc]
         /\ p_log' = p_log \cup RetryLog(r)
    /\ UNCHANGED <<p_commits, p_lang, p_kinds, p_api, p_io, merge_called, w_gen, cache, w_pc, w_reg, w_res,
                   cache_hits, cache_misses, k_seen, k_dict, k_list, hm, m_pc,
                   tech_summary, business_summary>>

\* lines 1012-1033: a free worker of the kind's pool takes the oldest queued
\* chunk and runs process_chunk up to the cache lookup
StartChunk(kind, i) ==
    /\ k_pc[kind] \in {"fanout", "unwind"}
    /\ w_pc[kind][i] = "queued"
    /\ \A j \in ChunkIds : j < i => w_pc[kind][j] # "queued"
    /\ Cardinality(Running(kind)) < MAX_CONCURRENT_CHUNKS
    /\ \E io \in p_io :
         LET cache_key == ChunkKey(kind, i)
             cached_summary ==
                 IF io = "ok" THEN ReadChunkCache(cache, cache_key) ELSE NoSummary
         IN  /\ w_pc' = [w_pc EXCEPT ![kind][i] =
                    IF io = "makedirs_error" THEN "crashed"
                    ELSE IF cached_summary # NoSummary THEN "hit" ELSE "miss"]
             /\ w_res' = [w_res EXCEPT ![kind][i] =
                    IF cached_summary # NoSummary
                    THEN [idx |-> i, summary |-> cached_summary, cached |-> TRUE]
                    ELSE @]
             /\ p_log' = p_log \cup
                    IF io = "open_error" /\ cache_key \in DOMAIN cache
                    THEN {[site |-> "cache_read_warning", redacted |-> FALSE]}
                    ELSE {}
    /\ UNCHANGED <<p_commits, p_lang, p_kinds, p_api, p_io, merge_called, w_gen, cache, k_pc, w_reg,
                   cache_hits, cache_misses, k_seen, k_dict, k_list, hm, k_out, k_exc,
                   m_pc, tech_summary, business_summary>>

\* line 1032 / 1036, first half of `counter += 1`: the counter is loaded
LoadCounter(kind, i) ==
    /\ w_pc[kind][i] \in {"hit", "miss"}
    /\ w_reg' = [w_reg EXCEPT ![kind][i] =
           IF w_pc[kind][i] = "hit" THEN cache_hits[kind] ELSE cache_misses[kind]]
    /\ w_pc' = [w_pc EXCEPT ![kind][i] =
           IF w_pc[kind][i] = "hit" THEN "hit_store" ELSE "miss_store"]
    /\ UNCHANGED <<p_commits, p_lang, p_kinds, p_api, p_io, merge_called, w_gen, cache, k_pc, w_res, cache_hits,
                   cache_misses, k_seen, k_dict, k_list, hm, k_out, k_exc, m_pc,
                   tech_summary, business_summary, p_log>>

\* lines 1032-1033: cache_hits is stored and the cached summary returned
StoreHit(kind, i) ==
    /\ w_pc[kind][i] = "hit_store"
    /\ cache_hits' = [cache_hits EXCEPT ![kind] = w_reg[kind][i] + 1]
    /\ w_pc' = [w_pc EXCEPT ![kind][i] = "done"]
    /\ UNCHANGED <<p_commits, p_lang, p_kinds, p_api, p_io, merge_called, w_gen, cache, k_pc, w_reg, w_res,
                   cache_misses, k_seen, k_dict, k_list, hm, k_out, k_exc, m_pc,
                   tech_summary, business_summary, p_log>>

\* line 1036: cache_misses is stored
StoreMiss(kind, i) ==
    /\ w_pc[kind][i] = "miss_store"
    /\ cache_misses' = [cache_misses EXCEPT ![kind] = w_reg[kind][i] + 1]
    /\ w_pc' = [w_pc EXCEPT ![kind][i] = "gen"]
    /\ UNCHANGED <<p_commits, p_lang, p_kinds, p_api, p_io, merge_called, w_gen, cache, k_pc, w_reg, w_res,
                   cache_hits, k_seen, k_dict, k_list, hm, k_out, k_exc, m_pc,
                   tech_summary, business_summary, p_log>>

\* an except branch that stores the placeholder under the chunk's key
CacheOnFailureWritten(files, key, fallback) ==
    WriteChunkCache(files, key, fallback)

\* lines 1050-1056: the except branch builds the placeholder and returns it;
\* it does not call write_chunk_cache
CacheOnFailure(files, key, fallback) == files

\* lines 1037-1056: the prompt, the wrapped generate_summary call, then the
\* cache write and the tuple, or the warning and the placeholder
GenerateChunk(kind, i) ==
    /\ w_pc[kind][i] = "gen"
    /\ w_gen' = [w_gen EXCEPT ![kind][i] = @ + 1]
    /\ \E r \in p_api : \E io \in (IF r.ok THEN p_io ELSE {"ok"}) :
         LET start_idx == StartIdx(i, COMMITS_PER_CHUNK)
             end_idx == EndIdx(i, COMMITS_PER_CHUNK, TotalCommits)
             chunk_summary ==
                 Generated(kind, i + 1, start_idx + 1, end_idx, ChunkText(i))
             fallback == Placeholder(i + 1, start_idx + 1, end_idx)
         IN  IF r.ok /\ io # "makedirs_error"
             THEN /\ cache' = IF io = "ok"
                              THEN WriteChunkCache(cache, ChunkKey(kind, i), chunk_summary)
                              ELSE cache
                  /\ w_res' = [w_res EXCEPT ![kind][i] =
                         [idx |-> i, summary |-> chunk_summary, cached |-> FALSE]]
                  /\ p_log' = p_log \cup RetryLog(r) \cup
                         IF io = "open_error"
                         THEN {[site |-> "cache_write_warning", redacted |-> FALSE]}
                         ELSE {}
                  /\ w_pc' = [w_pc EXCEPT ![kind][i] = "done"]
             ELSE /\ cache' = CacheOnFailure(cache, ChunkKey(kind, i), fallback)
                  /\ w_res' = [w_res EXCEPT ![kind][i] =
                         [idx |-> i, summary |-> fallback, cached |-> FALSE]]
                  /\ p_log' = p_log \cup RetryLog(r)
                       \cup {[site |-> "chunk_warning",
                               redacted |-> IF r.ok THEN FALSE ELSE r.exc.redacted]}
                  /\ w_pc' = [w_pc EXCEPT ![kind][i] = "failed"]
    /\ UNCHANGED <<p_commits, p_lang, p_kinds, p_api, p_io, merge_called, k_pc, w_reg, cache_hits,
                   cache_misses, k_seen, k_dict, k_list, hm, k_out, k_exc, m_pc,
                   tech_summary, business_summary>>

StoreByArrival(d, res) ==
    [j \in DOMAIN d \cup {Cardinality(DOMAIN d)} |->
        IF j = Cardinality(DOMAIN d) THEN res.summary ELSE d[j]]

\* line 1072: chunk_summaries_dict[chunk_idx] = chunk_summary
StoreResult(d, res) ==
    [j \in DOMAIN d \cup {res.idx} |-> IF j = res.idx THEN res.summary ELSE d[j]]

\* lines 1070-1072: as_completed yields a finished future, in any order
CollectResult(kind) ==
    /\ k_pc[kind] = "fanout"
    /\ \E i \in ChunkIds \ k_seen[kind] :
         /\ w_pc[kind][i] \in Ended
         /\ k_seen' = [k_seen EXCEPT ![kind] = @ \cup {i}]
         /\ IF w_pc[kind][i] = "crashed"
            THEN /\ k_pc' = [k_pc EXCEPT ![kind] = "unwind"]
                 /\ k_exc' = [k_exc EXCEPT ![kind] = IoMessage]
                 /\ UNCHANGED k_dict
            ELSE /\ k_dict' = [k_dict EXCEPT ![kind] = StoreResult(@, w_res[kind][i])]
                 /\ UNCHANGED <<k_pc, k_exc>>
    /\ UNCHANGED <<p_commits, p_lang, p_kinds, p_api, p_io, merge_called, w_gen, cache, w_pc, w_reg, w_res,
                   cache_hits, cache_misses, k_list, hm, k_out, m_pc,
                   tech_summary, business_summary, p_log>>

\* lines 1061-1072, the end of the `with` block when future.result() raised:
\* ThreadPoolExecutor.__exit__ waits for every submitted process_chunk, then
\* the exception leaves generate_chunked_summary
ExecutorExit(kind) ==
    /\ k_pc[kind] = "unwind"
    /\ \A i \in ChunkIds : w_pc[kind][i] \in Ended
    /\ k_pc' = [k_pc EXCEPT ![kind] = "raised"]
    /\ UNCHANGED <<p_commits, p_lang, p_kinds, p_api, p_io, merge_called, w_gen, cache, w_pc, w_reg, w_res,
                   cache_hits, cache_misses, k_seen, k_dict, k_list, hm, k_out, k_exc,
                   m_pc, tech_summary, business_summary, p_log>>

\* ------------------------------------------------------ hierarchical merge

\* One activation of hierarchical_merge_summaries: its arguments, where it
\* is ("entry", "batch": the loop over the batches, "split": the loop over
\* the two halves of a batch), the loop index i, merged_batches, and the
\* halves not yet merged.
Frame(chunk_summaries, batch_size) ==
    [sums |-> chunk_summaries, bs |-> batch_size, pc |-> "entry", i |-> 0,
     mb |-> <<>>, sub |-> <<>>]

Top(stack) == stack[Len(stack)]
Pop(stack) == SubSeq(stack, 1, Len(stack) - 1)
SetTop(stack, f) == [stack EXCEPT ![Len(stack)] = f]

\* a merger that finds the signature in no message
IsTooLargeNever(e) == FALSE

\* line 660 / 691: "413" in str(e) or "too large" in str(e).lower()
IsTooLarge(e) == "large" \in e.marks

\* a split that keeps the first half only
HalvesFirstOnly(batch) ==
    SelectSeq(<<Slice(batch, 0, Len(batch) \div 2)>>, LAMBDA s : s # <<>>)

\* lines 694-697: [batch[: len(batch) // 2], batch[len(batch) // 2 :]],
\* of which `if sub_batch` keeps the non-empty ones
Halves(batch) ==
    SelectSeq(<<Slice(batch, 0, Len(batch) \div 2),
                Slice(batch, Len(batch) \div 2, Len(batch))>>,
              LAMBDA s : s # <<>>)

\* The top activation returns v: to the caller of the merger, or to the
\* activation that called it from the loop over the halves (line 705).
HmReturn(stack, v) ==
    IF Pop(stack) = <<>>
    THEN [stack |-> <<>>, done |-> "returned", val |-> v, exc |-> NoMessage]
    ELSE [stack |-> SetTop(Pop(stack),
                           [Top(Pop(stack)) EXCEPT !.mb = Append(@, v)]),
          done |-> "no", val |-> NoSummary, exc |-> NoMessage]

\* An exception leaves every activation: the recursive calls are made from
\* return statements and from inside the except blocks.
HmRaise(e) == [stack |-> <<>>, done |-> "raised", val |-> NoSummary, exc |-> e]

HmGo(stack) == [stack |-> stack, done |-> "no", val |-> NoSummary, exc |-> NoMessage]

\* a merger that calls merge_chunk_summaries on every step
HmCallsAlways(f) == TRUE

\* whether the next step of the top activation calls merge_chunk_summaries
HmCalls(f) ==
    \/ f.pc = "entry" /\ Len(f.sums) >= 2 /\ Len(f.sums) <= f.bs
    \/ f.pc = "batch" /\ f.i < Len(f.sums)

\* a next level that hands on the first of the merged batches only
NextLevelFirst(f) == Frame(<<Head(f.mb)>>, f.bs)

\* line 710: return hierarchical_merge_summaries(merged_batches, ..., batch_size).
\* A call made by a return statement is modelled as the activation starting
\* again on the new arguments: the caller does nothing more than hand the
\* result, or the exception, on.
NextLevel(f) == Frame(f.mb, f.bs)

\* a re-entry that keeps the batch size
ShrinkKeep(f) == Frame(f.sums, f.bs)

\* line 666: return hierarchical_merge_summaries(chunk_summaries, ..., batch_size - 1)
Shrink(f) == Frame(f.sums, f.bs - 1)

\* a split that reduces the batch size without a floor
SubFrameNoFloor(f) == Frame(Head(f.sub), f.bs - 2)

\* lines 699-704: hierarchical_merge_summaries(sub_batch, ..., max(2, batch_size - 2))
SubFrame(f) == Frame(Head(f.sub), Max(2, f.bs - 2))

\* One step of hierarchical_merge_summaries (lines 648-712) in the top
\* activation; r is the result of the merge_chunk_summaries call, if the
\* step makes one.
HmStep(stack, kind, r) ==
    LET f == Top(stack)
        n == Len(f.sums)
    IN  CASE f.pc = "entry" ->
               IF n <= 1
               THEN HmReturn(stack, IF n = 1 THEN f.sums[1] ELSE EmptyString)
               ELSE IF n <= f.bs
               THEN IF r.ok
                    THEN HmReturn(stack, Merged(kind))
                    ELSE IF IsTooLarge(r.exc) /\ f.bs > 2
                    THEN HmGo(SetTop(stack, Shrink(f)))
                    ELSE HmRaise(r.exc)
               ELSE HmGo(SetTop(stack, [f EXCEPT !.pc = "batch"]))
          [] f.pc = "batch" ->
               IF f.i < n
               THEN IF r.ok
                    THEN HmGo(SetTop(stack, [f EXCEPT !.mb = Append(@, Merged(kind)),
                                                      !.i = @ + f.bs]))
                    ELSE IF IsTooLarge(r.exc)
                    THEN HmGo(SetTop(stack,
                             [f EXCEPT !.pc = "split",
                                       !.sub = Halves(Slice(f.sums, f.i, f.i + f.bs))]))
                    ELSE HmRaise(r.exc)
               ELSE HmGo(SetTop(stack, NextLevel(f)))
          [] f.pc = "split" ->
               IF f.sub # <<>>
               THEN HmGo(Append(SetTop(stack, [f EXCEPT !.sub = Tail(@)]), SubFrame(f)))
               ELSE HmGo(SetTop(stack, [f EXCEPT !.pc = "batch", !.i = @ + f.bs]))

NoCall == [ok |-> TRUE, exc |-> NoMessage, printed |-> {}]

\* lines 1074-1090: the ordered list, then the merge of the chunk summaries
BuildList(kind) ==
    /\ k_pc[kind] = "fanout"
    /\ k_seen[kind] = ChunkIds
    /\ LET chunk_summaries == [j \in 1..PNum |-> k_dict[kind][j - 1]]
       IN  /\ k_list' = [k_list EXCEPT ![kind] = chunk_summaries]
           /\ IF Len(chunk_summaries) = 1
              THEN /\ k_pc' = [k_pc EXCEPT ![kind] = "returned"]
                   /\ k_out' = [k_out EXCEPT ![kind] = chunk_summaries[1]]
                   /\ UNCHANGED <<hm, k_exc>>
              ELSE IF Len(chunk_summaries) > 1
              THEN /\ k_pc' = [k_pc EXCEPT ![kind] = "merge"]
                   /\ hm' = [hm EXCEPT ![kind] =
                          <<Frame(chunk_summaries, DEFAULT_BATCH_SIZE)>>]
                   /\ UNCHANGED <<k_out, k_exc>>
              ELSE /\ k_pc' = [k_pc EXCEPT ![kind] = "raised"]
                   /\ k_exc' = [k_exc EXCEPT ![kind] = RawMessage({})]
                   /\ UNCHANGED <<hm, k_out>>
    /\ UNCHANGED <<p_commits, p_lang, p_kinds, p_api, p_io, merge_called, w_gen, cache, w_pc, w_reg, w_res,
                   cache_hits, cache_misses, k_seen, k_dict, m_pc,
                   tech_summary, business_summary, p_log>>

\* hierarchical_merge_summaries, one step
MergeStep(kind) ==
    /\ k_pc[kind] = "merge"
    /\ \E r \in (IF HmCalls(Top(hm[kind])) THEN p_api ELSE {NoCall}) :
         LET s == HmStep(hm[kind], kind, r)
         IN  /\ hm' = [hm EXCEPT ![kind] = s.stack]
             /\ k_pc' = [k_pc EXCEPT ![kind] = IF s.done = "no" THEN @ ELSE s.done]
             /\ k_out' = [k_out EXCEPT ![kind] = IF s.done = "returned" THEN s.val ELSE @]
             /\ k_exc' = [k_exc EXCEPT ![kind] = IF s.done = "raised" THEN s.exc ELSE @]
             /\ p_log' = p_log \cup RetryLog(r)
    /\ merge_called' = [merge_called EXCEPT ![kind] = @ \/ HmCalls(Top(hm[kind]))]
    /\ UNCHANGED <<p_commits, p_lang, p_kinds, p_api, p_io, w_gen, cache, w_pc, w_reg, w_res,
                   cache_hits, cache_misses, k_seen, k_dict, k_list, m_pc,
                   tech_summary, business_summary>>

\* --------------------------------------------------------- the main thread

KindResultJoint(kind) ==
    IF \A k \in Kinds : k_pc[k] = "returned"
    THEN k_out[kind] ELSE Fallback(kind, p_lang)

\* what the main thread makes of a kind's future (lines 1115-1131)
KindResult(kind) ==
    IF k_pc[kind] = "returned" THEN k_out[kind] ELSE Fallback(kind, p_lang)
KindLog(kind) ==
    IF k_pc[kind] = "raised"
    THEN {[site |-> "kind_fallback", redacted |-> RedactApiKey(k_exc[kind]).redacted]}
    ELSE {}

\* lines 1115-1122: tech_future.result()
CollectTech ==
    /\ m_pc = "tech"
    /\ k_pc["technical"] \in {"returned", "raised"}
    /\ tech_summary' = KindResult("technical")
    /\ p_log' = p_log \cup KindLog("technical")
    /\ m_pc' = "business"
    /\ UNCHANGED <<p_commits, p_lang, p_kinds, p_api, p_io, merge_called, w_gen, cache, k_pc, w_pc, w_reg, w_res,
                   cache_hits, cache_misses, k_seen, k_dict, k_list, hm, k_out,
                   k_exc, business_summary>>

\* lines 1124-1131: business_future.result()
CollectBusiness ==
    /\ m_pc = "business"
    /\ k_pc["business"] \in {"returned", "raised"}
    /\ business_summary' = KindResult("business")
    /\ p_log' = p_log \cup KindLog("business")
    /\ m_pc' = "write"
    /\ UNCHANGED <<p_commits, p_lang, p_kinds, p_api, p_io, merge_called, w_gen, cache, k_pc, w_pc, w_reg, w_res,
                   cache_hits, cache_misses, k_seen, k_dict, k_list, hm, k_out,
                   k_exc, tech_summary>>

\* ------------------------------------------------------- the start of a run

\* line 452: cleanup_chunk_cache(max_age_hours=48)
STARTUP_MAX_AGE_HOURS == 48

\* a removal that leaves the cache files where they are
RemoveFilesKept(files, present) == files

\* line 440, os.remove(file_path): the files of the cache directory that are
\* left when the entries in `present` are
RemoveFiles(files, present) == [q \in DOMAIN files \cap present |-> files[q]]

\* One filename of the sweep at startup: the entry is a file of the chunk
\* cache, "<key>.txt", and what os.remove deletes is that file.
StartupSweepEntry ==
    /\ SweepEntry
    /\ cache' = RemoveFiles(cache, t_out'.present)
    /\ UNCHANGED <<p_commits, p_lang, p_kinds, p_api, p_io, merge_called, w_gen,
                   k_pc, w_pc, w_reg, w_res, cache_hits, cache_misses, k_seen,
                   k_dict, k_list, hm, k_out, k_exc, m_pc, tech_summary,
                   business_summary, p_log>>

\* the statements after line 452 are reached when the sweep has returned
StartupOver == t_fn = "cleanup_chunk_cache" /\ t_out.pc = "returned"

\* ------------------------------------------------------------ initial states

\* The commit lists tried: all texts different, and texts that repeat with
\* the period of a chunk (two full chunks then have the same text).
CommitLists(n) ==
    {[j \in 1..n |-> j], [j \in 1..n |-> ((j - 1) % COMMITS_PER_CHUNK) + 1]}

\* the commit counts tried: one commit, a full single analysis, the smallest
\* chunked run, and the largest count of the specification
CommitCounts(max) == {1, COMMITS_PER_CHUNK, COMMITS_PER_CHUNK + 1, max}

PipeIdle ==
    /\ p_commits = <<>> /\ p_lang = "English" /\ p_kinds = {} /\ cache = <<>>
    /\ p_api = {} /\ p_io = {}
    /\ k_pc = [k \in Kinds |-> "off"]
    /\ w_pc = [k \in Kinds |-> <<>>]
    /\ w_reg = [k \in Kinds |-> <<>>]
    /\ w_res = [k \in Kinds |-> <<>>]
    /\ w_gen = [k \in Kinds |-> <<>>]
    /\ merge_called = [k \in Kinds |-> FALSE]
    /\ cache_hits = [k \in Kinds |-> 0]
    /\ cache_misses = [k \in Kinds |-> 0]
    /\ k_seen = [k \in Kinds |-> {}]
    /\ k_dict = [k \in Kinds |-> <<>>]
    /\ k_list = [k \in Kinds |-> <<>>]
    /\ hm = [k \in Kinds |-> <<>>]
    /\ k_out = [k \in Kinds |-> NoSummary]
    /\ k_exc = [k \in Kinds |-> NoMessage]
    /\ m_pc = "off"
    /\ tech_summary = NoSummary
    /\ business_summary = NoSummary
    /\ p_log = {}

\* The state when the two futures have been submitted (line 1097): the given
\* kinds run generate_chunked_summary on a commit list of one of the counts,
\* over a cache directory in which an earlier run left the summaries of the
\* chunks of one of the index sets in `priors`.
InitPipeline(kinds, counts, languages, results, answers, priors, main) ==
    /\ p_kinds = kinds
    /\ p_api = results
    /\ p_io = answers
    /\ \E n \in counts : p_commits \in CommitLists(n)
    /\ p_lang \in languages
    /\ \E had \in priors :
         cache = [q \in {ChunkKey(k, i) : k \in kinds, i \in had \cap ChunkIds} |->
                     LET of == CHOOSE ki \in kinds \X (had \cap ChunkIds) :
                                   ChunkKey(ki[1], ki[2]) = q
                     IN  PriorContent(of[1], ChunkText(of[2]))]
    /\ k_pc = [k \in Kinds |->
                  IF k \notin kinds THEN "off" ELSE IF PUse THEN "fanout" ELSE "single"]
    /\ w_pc = [k \in Kinds |-> [i \in (IF k \in kinds THEN ChunkIds ELSE {}) |-> "queued"]]
    /\ w_reg = [k \in Kinds |-> [i \in (IF k \in kinds THEN ChunkIds ELSE {}) |-> 0]]
    /\ w_gen = [k \in Kinds |-> [i \in (IF k \in kinds THEN ChunkIds ELSE {}) |-> 0]]
    /\ merge_called = [k \in Kinds |-> FALSE]
    /\ w_res = [k \in Kinds |->
                  [i \in (IF k \in kinds THEN ChunkIds ELSE {}) |->
                      [idx |-> i, summary |-> NoSummary, cached |-> FALSE]]]
    /\ cache_hits = [k \in Kinds |-> 0]
    /\ cache_misses = [k \in Kinds |-> 0]
    /\ k_seen = [k \in Kinds |-> {}]
    /\ k_dict = [k \in Kinds |-> <<>>]
    /\ k_list = [k \in Kinds |-> <<>>]
    /\ hm = [k \in Kinds |-> <<>>]
    /\ k_out = [k \in Kinds |-> NoSummary]
    /\ k_exc = [k \in Kinds |-> NoMessage]
    /\ m_pc = main
    /\ tech_summary = NoSummary
    /\ business_summary = NoSummary
    /\ p_log = {}

\* ---------------------------------------------------------- specifications

InitChunkSpec == InitChunk /\ FileIdle /\ RetryIdle /\ PipeIdle /\ CallIdle

NextChunk ==
    \/ DecideChunking /\ UNCHANGED <<retryVars, pipeVars, callVars, fileVars>>
    \/ SingleAnalysis /\ UNCHANGED <<retryVars, pipeVars, callVars, fileVars>>
    \/ SliceChunk /\ UNCHANGED <<retryVars, pipeVars, callVars, fileVars>>
    \/ AllSliced /\ UNCHANGED <<retryVars, pipeVars, callVars, fileVars>>

SpecChunk == InitChunkSpec /\ [][NextChunk]_vars

InitRetrySpec == InitRetry /\ ChunkIdle /\ FileIdle /\ PipeIdle /\ CallIdle

NextRetry == AttemptCall /\ UNCHANGED <<chunkVars, fileVars, pipeVars, callVars>>

SpecRetry == InitRetrySpec /\ [][NextRetry]_vars

InitRedactSpec == InitRedact /\ ChunkIdle /\ FileIdle /\ RetryIdle /\ PipeIdle

NextRedact == Redact /\ UNCHANGED <<chunkVars, fileVars, retryVars, pipeVars>>

SpecRedact == InitRedactSpec /\ [][NextRedact]_vars

InitKeySpec == InitKey /\ ChunkIdle /\ FileIdle /\ RetryIdle /\ PipeIdle

NextKey == MakeKeys /\ UNCHANGED <<chunkVars, fileVars, retryVars, pipeVars>>

SpecKey == InitKeySpec /\ [][NextKey]_vars

\* one call of generate_summary or merge_chunk_summaries through the wrapper
InitSummarySpec == InitSummary /\ ChunkIdle /\ FileIdle /\ PipeIdle

NextSummary == AttemptSummary /\ UNCHANGED <<chunkVars, fileVars, pipeVars>>

SpecSummary == InitSummarySpec /\ [][NextSummary]_vars

\* one call of cleanup_chunk_cache on a directory of up to MaxEntries entries
InitSweepSpec == InitSweep /\ ChunkIdle /\ FileIdle /\ RetryIdle /\ PipeIdle

NextSweep ==
    \/ SweepList /\ UNCHANGED <<chunkVars, fileVars, retryVars, pipeVars>>
    \/ SweepEntry /\ UNCHANGED <<chunkVars, fileVars, retryVars, pipeVars>>
    \/ SweepEmpty /\ UNCHANGED <<chunkVars, fileVars, retryVars, pipeVars>>
    \/ SweepReturn /\ UNCHANGED <<chunkVars, fileVars, retryVars, pipeVars>>

SpecSweep == InitSweepSpec /\ [][NextSweep]_vars

\* writes and reads of the cache in any order, the file system answering
InitStoreSpec ==
    /\ InitStore
    /\ p_commits = <<>> /\ p_lang = "English" /\ p_kinds = {} /\ p_api = {}
    /\ p_io = {}
    /\ k_pc = [k \in Kinds |-> "off"]
    /\ w_pc = [k \in Kinds |-> <<>>]
    /\ w_reg = [k \in Kinds |-> <<>>]
    /\ w_res = [k \in Kinds |-> <<>>]
    /\ w_gen = [k \in Kinds |-> <<>>]
    /\ merge_called = [k \in Kinds |-> FALSE]
    /\ cache_hits = [k \in Kinds |-> 0]
    /\ cache_misses = [k \in Kinds |-> 0]
    /\ k_seen = [k \in Kinds |-> {}]
    /\ k_dict = [k \in Kinds |-> <<>>]
    /\ k_list = [k \in Kinds |-> <<>>]
    /\ hm = [k \in Kinds |-> <<>>]
    /\ k_out = [k \in Kinds |-> NoSummary]
    /\ k_exc = [k \in Kinds |-> NoMessage]
    /\ m_pc = "off"
    /\ tech_summary = NoSummary
    /\ business_summary = NoSummary
    /\ p_log = {}
    /\ ChunkIdle /\ FileIdle /\ RetryIdle

NextStore ==
    \/ WriteCall
         /\ UNCHANGED <<chunkVars, fileVars, retryVars, p_commits, p_lang, p_kinds, p_api, p_io, merge_called, w_gen,
                        k_pc, w_pc, w_reg, w_res, cache_hits, cache_misses, k_seen,
                        k_dict, k_list, hm, k_out, k_exc, m_pc, tech_summary,
                        business_summary, p_log>>
    \/ ReadCall
         /\ UNCHANGED <<chunkVars, fileVars, retryVars, p_commits, p_lang, p_kinds, p_api, p_io, merge_called, w_gen,
                        k_pc, w_pc, w_reg, w_res, cache_hits, cache_misses, k_seen,
                        k_dict, k_list, hm, k_out, k_exc, m_pc, tech_summary,
                        business_summary, p_log>>

SpecStore == InitStoreSpec /\ [][NextStore]_vars

\* generate_chunked_summary of one kind, either of the two
InitKindSpec ==
    /\ \E k \in Kinds :
         InitPipeline({k}, CommitCounts(MaxKindCommits), {"English"},
                      ExternalResults, {"ok"},
                      SUBSET (0..(MaxKindCommits \div COMMITS_PER_CHUNK)), "off")
    /\ ChunkIdle /\ FileIdle /\ RetryIdle /\ CallIdle

NextKind ==
    \/ \E k \in p_kinds : GenerateSingle(k) /\ UNCHANGED <<chunkVars, fileVars, retryVars, callVars>>
    \/ \E k \in p_kinds : \E i \in ChunkIds :
         StartChunk(k, i) /\ UNCHANGED <<chunkVars, fileVars, retryVars, callVars>>
    \/ \E k \in p_kinds : \E i \in ChunkIds :
         LoadCounter(k, i) /\ UNCHANGED <<chunkVars, fileVars, retryVars, callVars>>
    \/ \E k \in p_kinds : \E i \in ChunkIds :
         StoreHit(k, i) /\ UNCHANGED <<chunkVars, fileVars, retryVars, callVars>>
    \/ \E k \in p_kinds : \E i \in ChunkIds :
         StoreMiss(k, i) /\ UNCHANGED <<chunkVars, fileVars, retryVars, callVars>>
    \/ \E k \in p_kinds : \E i \in ChunkIds :
         GenerateChunk(k, i) /\ UNCHANGED <<chunkVars, fileVars, retryVars, callVars>>
    \/ \E k \in p_kinds : CollectResult(k) /\ UNCHANGED <<chunkVars, fileVars, retryVars, callVars>>
    \/ \E k \in p_kinds : BuildList(k) /\ UNCHANGED <<chunkVars, fileVars, retryVars, callVars>>
    \/ \E k \in p_kinds : MergeStep(k) /\ UNCHANGED <<chunkVars, fileVars, retryVars, callVars>>

SpecKind == InitKindSpec /\ [][NextKind]_vars

\* generate_chunked_summary of one kind over a cache directory whose
\* operations can fail, the API answering every call
InitFaultSpec ==
    /\ \E k \in Kinds :
         InitPipeline({k}, CommitCounts(MaxKindCommits), {"English"},
                      AnsweringResults, IoAnswers,
                      SUBSET (0..(MaxKindCommits \div COMMITS_PER_CHUNK)), "off")
    /\ ChunkIdle /\ FileIdle /\ RetryIdle /\ CallIdle

NextFault ==
    \/ NextKind
    \/ \E k \in p_kinds : ExecutorExit(k) /\ UNCHANGED <<chunkVars, fileVars, retryVars, callVars>>

SpecFault == InitFaultSpec /\ [][NextFault]_vars

\* generate_chunked_summary of one kind on a commit list of more chunks
\* than the pool has workers, the API answering every call, the cache empty
\* or holding the first chunk
InitPoolSpec ==
    /\ \E k \in Kinds :
         InitPipeline({k}, {1, MaxPoolCommits}, {"English"}, AnsweringResults, {"ok"},
                      {{}, {0}}, "off")
    /\ ChunkIdle /\ FileIdle /\ RetryIdle /\ CallIdle

SpecPool == InitPoolSpec /\ [][NextKind]_vars

\* the two kinds side by side and the main thread that waits for them; the
\* first chunk of each kind is in the cache from an earlier run
InitMainSpec ==
    /\ InitPipeline(Kinds, CommitCounts(MaxMainCommits), Languages, PlainResults,
                    {"ok"}, {{0}}, "tech")
    /\ ChunkIdle /\ FileIdle /\ RetryIdle /\ CallIdle

NextMain ==
    \/ NextKind
    \/ CollectTech /\ UNCHANGED <<chunkVars, fileVars, retryVars, callVars>>
    \/ CollectBusiness /\ UNCHANGED <<chunkVars, fileVars, retryVars, callVars>>

SpecMain == InitMainSpec /\ [][NextMain]_vars

\* the same run against an API whose failures are authentication and
\* not-found errors
InitAuthSpec ==
    /\ InitPipeline(Kinds, CommitCounts(MaxMainCommits), Languages, AuthResults,
                    {"ok"}, {{0}}, "tech")
    /\ ChunkIdle /\ FileIdle /\ RetryIdle /\ CallIdle

SpecAuth == InitAuthSpec /\ [][NextMain]_vars

\* hierarchical_merge_summaries alone, called on a list of up to MaxSummaries
\* chunk summaries with a batch size of 2..MaxBatchSize, each merge call
\* answered or rejected as too large
InitMerger(results) ==
    /\ p_kinds = {"technical"}
    /\ p_api = results /\ p_io = {}
    /\ p_commits = <<>> /\ p_lang = "English" /\ cache = <<>>
    /\ k_pc = [k \in Kinds |-> IF k = "technical" THEN "merge" ELSE "off"]
    /\ \E n \in 0..MaxSummaries :
         k_list = [k \in Kinds |->
                      IF k = "technical"
                      THEN [j \in 1..n |-> Generated(k, j, j, j, <<j>>)]
                      ELSE <<>>]
    /\ \E batch_size \in 2..MaxBatchSize :
         hm = [k \in Kinds |->
                  IF k = "technical" THEN <<Frame(k_list[k], batch_size)>> ELSE <<>>]
    /\ w_pc = [k \in Kinds |-> <<>>]
    /\ w_reg = [k \in Kinds |-> <<>>]
    /\ w_res = [k \in Kinds |-> <<>>]
    /\ w_gen = [k \in Kinds |-> <<>>]
    /\ merge_called = [k \in Kinds |-> FALSE]
    /\ cache_hits = [k \in Kinds |-> 0]
    /\ cache_misses = [k \in Kinds |-> 0]
    /\ k_seen = [k \in Kinds |-> {}]
    /\ k_dict = [k \in Kinds |-> <<>>]
    /\ k_out = [k \in Kinds |-> NoSummary]
    /\ k_exc = [k \in Kinds |-> NoMessage]
    /\ m_pc = "off"
    /\ tech_summary = NoSummary
    /\ business_summary = NoSummary
    /\ p_log = {}
    /\ ChunkIdle /\ FileIdle /\ RetryIdle /\ CallIdle

InitMergeSpec == InitMerger(LargeResults)

NextMerge == \E k \in p_kinds : MergeStep(k) /\ UNCHANGED <<chunkVars, fileVars, retryVars, callVars>>

\* the merger is not suspended for ever: a step that can be taken is taken
SpecMerge == InitMergeSpec /\ [][NextMerge]_vars /\ WF_vars(NextMerge)

\* the merger alone against an API that answers, rejects the payload as too
\* large, or fails with a message that has no marker
InitBatchSpec == InitMerger(PlainResults)

SpecBatch == InitBatchSpec /\ [][NextMerge]_vars

\* one call of process_commits_in_chunks
InitFormatSpec == InitFormat /\ ChunkIdle /\ FileIdle /\ RetryIdle /\ PipeIdle

NextFormat == ProcessCommits /\ UNCHANGED <<chunkVars, fileVars, retryVars, pipeVars>>

SpecFormat == InitFormatSpec /\ [][NextFormat]_vars

\* consecutive runs on one CHANGELOG.md
InitFileSpec == InitFile /\ ChunkIdle /\ RetryIdle /\ PipeIdle /\ CallIdle

NextFile ==
    WriteChangelog /\ UNCHANGED <<chunkVars, retryVars, pipeVars, callVars>>

SpecFile == InitFileSpec /\ [][NextFile]_vars

\* A run from its first statement: the cache directory holds the files of
\* earlier runs, each with an age and an answer of the file system, the
\* sweep goes over them, and the chunks of one kind are then summarised.
InitRunSpec ==
    /\ \E k \in Kinds :
         InitPipeline({k}, CommitCounts(MaxRunCommits), {"English"},
                      AnsweringResults, {"ok"},
                      SUBSET (0..(MaxRunCommits \div COMMITS_PER_CHUNK)), "off")
    /\ t_fn = "cleanup_chunk_cache"
    /\ \E dir \in DirAnswers :
       \E entries \in [DOMAIN cache ->
                          {e \in EntryKinds(STARTUP_MAX_AGE_HOURS * SECONDS_PER_HOUR) :
                              e.txt}] :
         t_in = [max_age_hours |-> STARTUP_MAX_AGE_HOURS, dir |-> dir,
                 entries |-> entries]
    /\ t_out = [pc |-> "called", todo |-> {}, present |-> DOMAIN cache,
                removed_count |-> 0, printed |-> FALSE]
    /\ ChunkIdle /\ FileIdle /\ RetryIdle

NextRun ==
    \/ SweepList /\ UNCHANGED <<chunkVars, fileVars, retryVars, pipeVars>>
    \/ StartupSweepEntry /\ UNCHANGED <<chunkVars, fileVars, retryVars>>
    \/ SweepEmpty /\ UNCHANGED <<chunkVars, fileVars, retryVars, pipeVars>>
    \/ SweepReturn /\ UNCHANGED <<chunkVars, fileVars, retryVars, pipeVars>>
    \/ StartupOver /\ NextKind

SpecRun == InitRunSpec /\ [][NextRun]_vars

\* ------------------------------------------------------------------ claims

\* ceil(n / c), stated without the code's arithmetic
CeilDiv(n, c) == CHOOSE q \in 0..n : q * c >= n /\ (q - 1) * c < n

\* C1: with N commits and chunk size C, chunking is used exactly when N > C;
\* then there are ceil(N/C) chunks, chunk i holds the records
\* [i*C, min((i+1)*C, N)), every chunk is non-empty and has at most C
\* records, and the chunks in ordinal order are the commit list; for N <= C
\* no chunk is taken.
C1_ChunkPartition ==
    LET N == Len(c_commits)
        C == c_size
    IN  c_pc # "decide" =>
          /\ c_use = (N > C)
          /\ N <= C => c_num = 0 /\ c_chunks = <<>> /\ c_pc \in {"single", "done"}
          /\ N > C => c_num = CeilDiv(N, C)
          /\ \A k \in 1..Len(c_chunks) :
               LET lo == (k - 1) * C
                   hi == Min(k * C, N)
               IN  /\ hi - lo >= 1
                   /\ hi - lo <= C
                   /\ c_chunks[k] = [j \in 1..(hi - lo) |-> c_commits[lo + j]]
          /\ (c_pc = "done" /\ N > C) =>
               /\ Len(c_chunks) = CeilDiv(N, C)
               /\ Flatten(c_chunks) = c_commits

\* a finished partition of at least three chunks whose last chunk is short
C1_Witness ==
    /\ c_pc = "done"
    /\ c_use
    /\ Len(c_chunks) >= 3
    /\ Len(c_chunks[Len(c_chunks)]) < c_size

\* How the claims read the chunks of a run: the ordinals, the 1-based commit
\* range of ordinal i, and the commits in it.
Ordinals == 0..(CeilDiv(TotalCommits, COMMITS_PER_CHUNK) - 1)
RangeLo(i) == i * COMMITS_PER_CHUNK + 1
RangeHi(i) == Min((i + 1) * COMMITS_PER_CHUNK, TotalCommits)
RangeText(i) == [j \in 1..(RangeHi(i) - RangeLo(i) + 1) |-> p_commits[RangeLo(i) + j - 1]]
OwnSummary(k, i, s) ==
    s.how \in {"prior", "generated"} /\ s.kind = k /\ s.text = RangeText(i)

\* C2: under chunking, a chunk whose generation call failed has as its result
\* the placeholder naming the chunk and its commit range; every other
\* finished chunk has its own cached or generated summary; and the kind
\* leaves the fan-out only with all chunks finished and a list of num_chunks
\* summaries for the merger, the placeholder at the failed chunk's position:
\* it raises only out of the merge, never out of a chunk.
C2_ChunkFailureIsolated ==
    \A k \in p_kinds :
      TotalCommits > COMMITS_PER_CHUNK =>
        /\ \A i \in Ordinals :
             /\ w_pc[k][i] = "failed" =>
                  w_res[k][i].summary =
                      [how |-> "placeholder", kind |-> "none", chunk |-> i + 1,
                       lo |-> RangeLo(i), hi |-> RangeHi(i),
                       text |-> <<>>, ws |-> FALSE]
             /\ w_pc[k][i] = "done" => OwnSummary(k, i, w_res[k][i].summary)
        /\ k_pc[k] \in {"fanout", "merge", "returned", "raised"}
        /\ k_pc[k] # "fanout" =>
             /\ \A i \in Ordinals : w_pc[k][i] \in Finished
             /\ Len(k_list[k]) = CeilDiv(TotalCommits, COMMITS_PER_CHUNK)
             /\ \A i \in Ordinals :
                  w_pc[k][i] = "failed" => k_list[k][i + 1].how = "placeholder"

\* the second of three chunks failed, the other two have real content, and
\* the merged result has been produced
C2_Witness ==
    \E k \in p_kinds :
      /\ Ordinals = 0..2
      /\ w_pc[k][1] = "failed"
      /\ w_res[k][0].summary.how = "generated"
      /\ w_res[k][2].summary.how = "generated"
      /\ k_pc[k] = "returned"
      /\ k_out[k].how = "merged"

\* C3: whatever the order in which the workers of a kind finish and their
\* futures are yielded, a yielded result is filed under its chunk ordinal, and
\* the list handed to the merger has num_chunks elements, the element at
\* position i being the result of chunk ordinal i.
C3_OrderedAssembly ==
    \A k \in p_kinds :
      TotalCommits > COMMITS_PER_CHUNK =>
        /\ \A i \in k_seen[k] :
             i \in DOMAIN k_dict[k] /\ k_dict[k][i] = w_res[k][i].summary
        /\ k_pc[k] # "fanout" =>
             /\ Len(k_list[k]) = CeilDiv(TotalCommits, COMMITS_PER_CHUNK)
             /\ \A i \in Ordinals : k_list[k][i + 1] = w_res[k][i].summary

\* the last chunk's result has been yielded and filed while the worker of
\* the first chunk has not finished
C3_Witness ==
    \E k \in p_kinds :
      /\ Ordinals = 0..2
      /\ k_seen[k] = {2}
      /\ k_dict[k][2] = w_res[k][2].summary
      /\ w_pc[k][0] \notin Finished

\* C4: hierarchical_merge_summaries, called with a batch size of at least 2
\* and merge calls that succeed or are rejected as too large, eventually
\* returns one string or raises; it does not recurse for ever.
C4_MergeTerminates == <>(\A k \in Kinds : k_pc[k] # "merge")

\* the fallback string of a kind in the configured language, English when
\* the language is not a supported one
FallbackString(kind) ==
    [how |-> "fallback", kind |-> kind, chunk |-> 0, lo |-> 0, hi |-> 0,
     text |-> <<IF p_lang \in SupportedLanguages THEN p_lang ELSE "English">>,
     ws |-> FALSE]

Outcome(kind) ==
    IF k_pc[kind] = "raised" THEN FallbackString(kind) ELSE k_out[kind]

\* C5: once the main thread has taken a kind's result, that result is the
\* kind's fallback string if the kind's own pipeline raised and otherwise
\* exactly what the kind's own pipeline returned, whatever the other kind
\* did and whichever finished first.
C5_KindsIndependent ==
    /\ m_pc \in {"business", "write"} =>
         /\ k_pc["technical"] \in {"returned", "raised"}
         /\ tech_summary = Outcome("technical")
    /\ m_pc = "write" =>
         /\ k_pc["business"] \in {"returned", "raised"}
         /\ business_summary = Outcome("business")

\* the technical kind raised out of its merge and has its fallback; the
\* business kind has the merged text it returned
C5_Witness ==
    /\ m_pc = "write"
    /\ k_pc["technical"] = "raised"
    /\ hm["technical"] = <<>> /\ k_list["technical"] # <<>>
    /\ tech_summary = FallbackString("technical")
    /\ k_pc["business"] = "returned"
    /\ business_summary.how = "merged"

\* what a validated reply is, and what a usable summary of a kind is
Validated(s) == s.how \in {"generated", "merged"}
Usable(kind, s) == (Validated(s) /\ s.kind = kind) \/ s = FallbackString(kind)

NonRetryableMarks == {"auth", "notfound", "large"}
LabelOfMark(mk) ==
    CASE mk = "auth" -> "Authentication error"
      [] mk = "notfound" -> "Model availability error"
      [] mk = "large" -> "Payload too large error"
      [] mk = "rate" -> "Rate limit exceeded"
      [] mk = "network" -> "Network error"
      [] OTHER -> "Generic error"

\* C7: when the wrapped function raises an exception whose message holds an
\* authentication, not-found or payload-too-large marker, the wrapper has
\* invoked it exactly once, has not slept, and has raised an error labelled
\* with the category of such a marker.
C7_NonRetryableFailsAtOnce ==
    (Len(r_hist) >= 1 /\ ~r_hist[1].ok
        /\ r_hist[1].marks \cap NonRetryableMarks # {}) =>
      /\ rw.pc = "raised"
      /\ rw.calls = 1
      /\ rw.sleeps = 0
      /\ \E mk \in r_hist[1].marks \cap NonRetryableMarks :
           rw.exc.label = LabelOfMark(mk)

\* The categories the wrapper retries, read off a message's markers.
IsRateLimit(marks) == "rate" \in marks
IsNetwork(marks) ==
    "network" \in marks /\ marks \cap (NonRetryableMarks \cup {"rate"}) = {}
IsGeneric(marks) == marks = {}
IsRetryable(marks) == IsRateLimit(marks) \/ IsNetwork(marks) \/ IsGeneric(marks)
RetryableLabel(marks) ==
    IF IsRateLimit(marks) THEN LabelOfMark("rate")
    ELSE IF IsNetwork(marks) THEN LabelOfMark("network")
    ELSE LabelOfMark("generic")

\* C8: when every one of max_retries invocations failed with a retryable
\* failure, the wrapper has invoked the function exactly max_retries times
\* and has raised an error labelled with the category (rate-limit, network
\* or generic) of the last failure.
C8_ExhaustionRaisesLabelled ==
    (Len(r_hist) = r_max
        /\ \A j \in 1..Len(r_hist) : ~r_hist[j].ok /\ IsRetryable(r_hist[j].marks)) =>
      /\ rw.pc = "raised"
      /\ rw.calls = r_max
      /\ rw.exc.label = RetryableLabel(r_hist[Len(r_hist)].marks)

\* C9: whatever the outcomes, the wrapper invokes the function at most
\* max_retries times, an invocation follows only a retryable failure, and a
\* returned value is the value of the single successful invocation, the last.
C9_AttemptBudget ==
    /\ rw.calls = Len(r_hist)
    /\ rw.calls <= r_max
    /\ \A j \in 1..(Len(r_hist) - 1) :
         ~r_hist[j].ok /\ IsRetryable(r_hist[j].marks)
    /\ rw.pc = "returned" =>
         /\ Len(r_hist) >= 1
         /\ r_hist[Len(r_hist)].ok
         /\ rw.value = r_hist[Len(r_hist)].value
    /\ rw.pc = "raised" => Len(r_hist) >= 1 /\ ~r_hist[Len(r_hist)].ok
    /\ (Len(r_hist) >= 1 /\ r_hist[Len(r_hist)].ok) => rw.pc = "returned"
    /\ (Len(r_hist) >= 1 /\ ~r_hist[Len(r_hist)].ok
          /\ ~IsRetryable(r_hist[Len(r_hist)].marks)) => rw.pc = "raised"

\* a success on the third invocation, after a network and a rate-limit failure
C9_Witness ==
    /\ rw.pc = "returned"
    /\ rw.calls = 3
    /\ r_hist[1].marks = {"network"}
    /\ r_hist[2].marks = {"rate"}
    /\ rw.value = "v2"

\* C10: every error text the pipeline has printed (retry warnings, chunk
\* warnings, kind-fallback warnings) and every exception the retry wrapper
\* raised to generate_chunked_summary has been through redact_api_key.
C10_AllErrorTextRedacted ==
    /\ \A line \in p_log : line.redacted
    /\ \A k \in Kinds : k_exc[k].redacted

\* whether sub occurs somewhere in text
Contains(text, sub) == \E i \in 1..Len(text) : OccursAt(text, sub, i)

\* What the claim describes, read off the input from the left: a match of
\* the provider key pattern, as long as it can be, becomes the fixed marker;
\* an occurrence of a credential of more than 8 characters becomes the
\* credential's placeholder; every other character stays.
RECURSIVE RedactedAsClaimed(_, _, _)
RedactedAsClaimed(api_key, text, i) ==
    IF i > Len(text) THEN <<>>
    ELSE IF OccursAt(text, KeyPattern, i)
            /\ RunEnd(text, i + Len(KeyPattern)) >= i + Len(KeyPattern)
    THEN KeyPattern \o RedactionMarker
           \o RedactedAsClaimed(api_key, text, RunEnd(text, i + Len(KeyPattern)) + 1)
    ELSE IF Len(api_key) > 8 /\ OccursAt(text, api_key, i)
    THEN SubSeq(api_key, 1, 4) \o RedactionMarker
           \o RedactedAsClaimed(api_key, text, i + Len(api_key))
    ELSE <<text[i]>> \o RedactedAsClaimed(api_key, text, i + 1)

\* the credential's placeholder and the fixed marker taken as the same
SameMarker(api_key, text) ==
    IF Len(api_key) > 8
    THEN StrReplace(text, SubSeq(api_key, 1, 4) \o RedactionMarker,
                    KeyPattern \o RedactionMarker)
    ELSE text

\* C11: the output of redact_api_key does not contain a credential of more
\* than 8 characters, and it is the input with every match of the provider
\* key pattern replaced by the marker (a credential by its placeholder or the
\* marker) and everything else unchanged.
C11_RedactionComplete ==
    (t_fn = "redact_api_key" /\ t_out # <<>>) =>
      /\ Len(t_in.api_key) > 8 => ~Contains(t_out[1], t_in.api_key)
      /\ SameMarker(t_in.api_key, t_out[1])
           = SameMarker(t_in.api_key, RedactedAsClaimed(t_in.api_key, t_in.text, 1))

\* whether the kind, the model and the language of a tuple are free of "|"
DelimiterFree(x) == \A j \in 2..4 : \A n \in 1..Len(x[j]) : x[j][n] # "|"

\* C12 as stated: a key has 16 characters, equal tuples have equal keys and
\* tuples that differ in any field have different keys.
C12_KeyInjective ==
    (t_fn = "get_chunk_cache_key" /\ t_out # <<>>) =>
      /\ t_out[1].chars = 16 /\ t_out[2].chars = 16
      /\ (t_in[1] = t_in[2]) <=> (t_out[1] = t_out[2])

\* C12: a key has 16 characters, equal tuples have equal keys, and tuples
\* that differ have different keys when the kind, the model and the language
\* of both hold no "|" (the commit text may hold any).
C12_KeyInjectiveNoDelimiter ==
    (t_fn = "get_chunk_cache_key" /\ t_out # <<>>) =>
      /\ t_out[1].chars = 16 /\ t_out[2].chars = 16
      /\ t_in[1] = t_in[2] => t_out[1] = t_out[2]
      /\ (t_in[1] # t_in[2] /\ DelimiterFree(t_in[1]) /\ DelimiterFree(t_in[2])) =>
           t_out[1] # t_out[2]

\* two tuples that differ in the kind only, with "|" in the commit text of
\* both, have got different keys
C12_Witness ==
    /\ t_fn = "get_chunk_cache_key" /\ t_out # <<>>
    /\ t_in[1][1] = t_in[2][1] /\ "|" \in {t_in[1][1][n] : n \in 1..Len(t_in[1][1])}
    /\ t_in[1][2] # t_in[2][2]
    /\ t_in[1][3] = t_in[2][3] /\ t_in[1][4] = t_in[2][4]
    /\ DelimiterFree(t_in[1]) /\ DelimiterFree(t_in[2])
    /\ t_out[1] # t_out[2]

\* a read has just returned
ReadReturned == t_fn = "cache" /\ t_in # <<>> /\ t_in.op = "read" /\ t_out # <<>>

\* white space only, or nothing
Blank(s) == s.how = "empty"

C14_CacheFailuresNeverAbort ==
    \A k \in p_kinds :
      /\ k_pc[k] \notin {"unwind", "raised"}
      /\ \A i \in DOMAIN w_pc[k] :
           /\ w_pc[k][i] \notin {"crashed", "failed"}
           /\ w_pc[k][i] = "done" => OwnSummary(k, i, w_res[k][i].summary)
\* C15: cleanup_chunk_cache never raises; when it is over, an entry of the
\* cache (a .txt file) that could be examined and deleted is gone exactly if
\* its age exceeds max_age, an entry whose getmtime or remove failed is
\* still there while the others were processed all the same, and with a
\* missing or unreadable directory nothing was removed.
SweepOver == t_fn = "cleanup_chunk_cache" /\ t_out.pc \in {"returned", "raised"}

C15_SweepRemovesStaleOnly ==
    SweepOver =>
      /\ t_out.pc = "returned"
      /\ \A filename \in DOMAIN t_in.entries :
           LET entry == t_in.entries[filename]
               stale == entry.file_age > t_in.max_age_hours * SECONDS_PER_HOUR
           IN  filename \in t_out.present <=>
                 \/ t_in.dir # "ok"
                 \/ ~entry.txt
                 \/ entry.access # "ok"
                 \/ ~stale
\* C16: under chunking, for each chunk of each kind: when the cache read
\* returns content the chunk takes the hit path with that content as its
\* summary and resolves without a generate_summary call; when it returns
\* absent the chunk takes the miss path, resolves after exactly one
\* generate_summary call (the wrapper's retries inside it) and, when that
\* call succeeded, the cache holds its result under the chunk's key in the
\* state in which the chunk resolves; a resolved chunk makes no further call.
ChunkStepAsClaimed(k, i) ==
    LET cache_key == ChunkKey(k, i)
        read == ReadChunkCache(cache, cache_key)
    IN  /\ (w_pc[k][i] = "queued" /\ w_pc'[k][i] # "queued") =>
              IF read # NoSummary
              THEN /\ w_pc'[k][i] = "hit"
                   /\ w_res'[k][i] = [idx |-> i, summary |-> read, cached |-> TRUE]
              ELSE w_pc'[k][i] = "miss"
        /\ (w_pc[k][i] \notin Finished /\ w_pc'[k][i] \in Finished) =>
              IF w_res'[k][i].cached
              THEN w_gen'[k][i] = 0 /\ w_res'[k][i] = w_res[k][i]
              ELSE /\ w_gen'[k][i] = 1
                   /\ w_pc'[k][i] = "done" =>
                        /\ w_res'[k][i].summary.how = "generated"
                        /\ cache_key \in DOMAIN cache'
                        /\ cache'[cache_key] = w_res'[k][i].summary
        /\ w_pc[k][i] \in Finished =>
              w_gen'[k][i] = w_gen[k][i] /\ w_res'[k][i] = w_res[k][i]

C16_CacheHitSkipsGeneration ==
    [][\A k \in p_kinds : \A i \in DOMAIN w_pc[k] : ChunkStepAsClaimed(k, i)]_vars

\* C16's case: a chunk resolved from the cache without a call beside a chunk
\* that was generated by one call and is in the cache
C16_Witness ==
    \E k \in p_kinds : \E i, j \in DOMAIN w_pc[k] :
      /\ w_pc[k][i] = "done" /\ w_res[k][i].cached /\ w_gen[k][i] = 0
      /\ w_pc[k][j] = "done" /\ ~w_res[k][j].cached /\ w_gen[k][j] = 1
      /\ ChunkKey(k, j) \in DOMAIN cache
      /\ cache[ChunkKey(k, j)] = w_res[k][j].summary
\* C17: hierarchical_merge_summaries called with an empty sequence returns
\* the empty string, called with a one-element sequence returns that element
\* unchanged, and in both cases it does not raise and merge_chunk_summaries
\* is not called.
DegenerateMerge(k) == k_pc[k] \in {"merge", "returned", "raised"} /\ Len(k_list[k]) <= 1

C17_DegenerateMergeNoCall ==
    \A k \in p_kinds :
      DegenerateMerge(k) =>
        /\ ~merge_called[k]
        /\ k_pc[k] # "raised"
        /\ k_pc[k] = "returned" =>
             k_out[k] = IF Len(k_list[k]) = 1 THEN k_list[k][1] ELSE EmptyString

\* C17's case: the merger has returned the only element of its argument
C17_Witness ==
    /\ DegenerateMerge("technical")
    /\ k_pc["technical"] = "returned"
    /\ Len(k_list["technical"]) = 1
    /\ k_out["technical"] = k_list["technical"][1]
    /\ ~merge_called["technical"]
\* C18: authentication and not-found failures are fatal for the run. Once a
\* chunk generation or a merge of a kind has failed with one of them, the
\* kind neither goes on to merge nor returns a summary, and the run does not
\* reach the writing of the changelog entry.
FailedCall(k) ==
    \/ k_pc[k] = "raised"
    \/ \E i \in DOMAIN w_pc[k] : w_pc[k][i] = "failed"

C18_AuthFailureIsFatal ==
    \A k \in p_kinds :
      FailedCall(k) => k_pc[k] \notin {"merge", "returned"} /\ m_pc # "write"
\* C19: under chunking, when every chunk of a kind ended with the failure
\* placeholder, the kind's final result is the static fallback string.
AllChunksFailed(k) == PUse /\ \A i \in DOMAIN w_pc[k] : w_pc[k][i] = "failed"

C19_AllPlaceholdersGiveFallback ==
    \A k \in p_kinds :
      (AllChunksFailed(k) /\ k_pc[k] \in {"returned", "raised"}) =>
        Outcome(k) = FallbackString(k)
\* C20: with batch_size >= 2, whenever the loop over the batches of a list
\* of length L > batch_size has finished, merged_batches, the list handed to
\* the next level (line 710), is strictly shorter than L, whatever the merge
\* calls answered.
BatchingDone(f) == f.pc = "batch" /\ f.i >= Len(f.sums)

C20_NextLevelShorter ==
    \A k \in p_kinds : \A d \in DOMAIN hm[k] :
      LET f == hm[k][d]
      IN  (f.bs >= 2 /\ Len(f.sums) > f.bs /\ BatchingDone(f)) =>
            Len(f.mb) < Len(f.sums)

\* C21: in the batching step a batch that holds a single summary (the
\* trailing batch when the length is 1 modulo batch_size) contributes that
\* summary unchanged to merged_batches.
TrailingSingle(f) == BatchingDone(f) /\ Len(f.sums) % f.bs = 1 /\ f.mb # <<>>

C21_SingleBatchUnchanged ==
    \A k \in p_kinds : \A d \in DOMAIN hm[k] :
      LET f == hm[k][d]
      IN  TrailingSingle(f) => f.mb[Len(f.mb)] = f.sums[Len(f.sums)]

\* C22: an activation with 2 <= length <= batch_size makes one direct merge
\* call over all its summaries. Whatever that call results in: an answer is
\* returned; a failure with the payload-too-large signature and
\* batch_size > 2 re-enters on the same summaries with batch_size - 1; with
\* batch_size = 2 that failure leaves the merger; a failure without the
\* signature leaves the merger at once.
DirectMerge(f) == f.pc = "entry" /\ Len(f.sums) >= 2 /\ Len(f.sums) <= f.bs

DirectStepAsClaimed(stack, k, r) ==
    LET f == Top(stack)
        s == HmStep(stack, k, r)
    IN  IF r.ok
        THEN s = HmReturn(stack, Merged(k))
        ELSE IF IsTooLarge(r.exc) /\ f.bs > 2
        THEN /\ s.done = "no"
             /\ Len(s.stack) = Len(stack)
             /\ Top(s.stack) = Frame(f.sums, f.bs - 1)
             /\ Pop(s.stack) = Pop(stack)
        ELSE s.done = "raised" /\ s.exc = r.exc /\ s.stack = <<>>

C22_DirectMergeShrinks ==
    \A k \in p_kinds :
      (k_pc[k] = "merge" /\ DirectMerge(Top(hm[k]))) =>
        /\ HmCalls(Top(hm[k]))
        /\ \A r \in p_api : DirectStepAsClaimed(hm[k], k, r)

\* C22's case: the direct merge was rejected as too large at the default
\* batch size and the merger stands at the same summaries one size lower
C22_Witness ==
    \E k \in p_kinds :
      /\ k_pc[k] = "merge" /\ merge_called[k]
      /\ DirectMerge(Top(hm[k]))
      /\ Top(hm[k]) = Frame(k_list[k], DEFAULT_BATCH_SIZE - 1)

\* C23: when a batch's merge call fails with the payload-too-large signature
\* in the batching step, the batch is split into two halves that together
\* hold every summary of the batch once and in order, each non-empty half
\* is merged recursively with a batch_size strictly smaller than the current
\* one and not below 2, the halves' results are appended in order to
\* merged_batches, and the loop goes on with the next batch; a batch failure
\* without the signature leaves the whole merge.
RECURSIVE Concat(_)
Concat(ss) == IF ss = <<>> THEN <<>> ELSE Head(ss) \o Concat(Tail(ss))

BatchStep(f) == f.pc = "batch" /\ f.i < Len(f.sums)

BatchFailureAsClaimed(stack, k, r) ==
    LET f == Top(stack)
        batch == Slice(f.sums, f.i, f.i + f.bs)
        s == HmStep(stack, k, r)
    IN  IF IsTooLarge(r.exc)
        THEN /\ s.done = "no"
             /\ Top(s.stack).pc = "split"
             /\ Concat(Top(s.stack).sub) = batch
             /\ Len(Top(s.stack).sub) <= 2
             /\ \A h \in DOMAIN Top(s.stack).sub : Top(s.stack).sub[h] # <<>>
             /\ Top(s.stack).mb = f.mb /\ Top(s.stack).i = f.i
        ELSE s.done = "raised" /\ s.exc = r.exc /\ s.stack = <<>>

\* the loop over the halves: each is handed to a new activation with a
\* batch size of at least 2 that is smaller than the current one (when
\* `strictly`: always; otherwise: whenever the current one is above 2), and
\* after the last half the loop over the batches goes on
SplitStepAsClaimed(stack, k, strictly) ==
    LET f == Top(stack)
        s == HmStep(stack, k, NoCall)
    IN  IF f.sub # <<>>
        THEN /\ Len(s.stack) = Len(stack) + 1
             /\ Top(s.stack).pc = "entry"
             /\ Top(s.stack).sums = Head(f.sub)
             /\ Top(s.stack).bs >= 2
             /\ (strictly \/ f.bs > 2) => Top(s.stack).bs < f.bs
             /\ s.stack[Len(stack)] = [f EXCEPT !.sub = Tail(@)]
        ELSE s.stack = SetTop(stack, [f EXCEPT !.pc = "batch", !.i = @ + f.bs])

SplitAsClaimed(strictly) ==
    \A k \in p_kinds :
      k_pc[k] = "merge" =>
        /\ BatchStep(Top(hm[k])) =>
             \A r \in p_api : ~r.ok => BatchFailureAsClaimed(hm[k], k, r)
        /\ Top(hm[k]).pc = "split" => SplitStepAsClaimed(hm[k], k, strictly)

C23_BatchSplitInHalves == SplitAsClaimed(TRUE)

\* C23 as the code has it: the halves are merged with max(2, batch_size - 2),
\* which is smaller than the current batch size except at batch_size 2,
\* where it stays 2
C23_BatchSplitFloorTwo == SplitAsClaimed(FALSE)

\* C23's case: a batch of three was rejected at batch size 3 and split; its
\* first half came back as it is, its second half merged, both stand in
\* merged_batches in that order and the loop is at the next batch
C23_Witness ==
    \E k \in p_kinds :
      /\ k_pc[k] = "merge"
      /\ LET f == Top(hm[k])
         IN  /\ f.pc = "batch" /\ f.bs = 3 /\ f.i = 3 /\ Len(f.sums) > 3
             /\ f.mb = <<f.sums[1], Merged(k)>>

\* C24: a failure whose message carries the payload-too-large signature
\* leaves hierarchical_merge_summaries only from a merge call made over
\* exactly two summaries with batch_size = 2; at every larger batch size or
\* batch length the step that meets it shrinks or splits and the merger
\* goes on.
SmallestGranularity(f) == f.pc = "entry" /\ Len(f.sums) = 2 /\ f.bs = 2

TooLargeEscapes(k) ==
    k_pc[k] = "merge" /\ k_pc'[k] = "raised" /\ "large" \in k_exc'[k].marks

C24_TooLargeFatalOnlyAtFloor ==
    [][\A k \in p_kinds : TooLargeEscapes(k) => SmallestGranularity(Top(hm[k]))]_vars

\* C24's case: the merger was called on three summaries or more, absorbed
\* what it could, and the failure of a merge of two at batch size 2 left it
C24_Witness ==
    \E k \in p_kinds :
      /\ k_pc[k] = "raised" /\ "large" \in k_exc[k].marks
      /\ merge_called[k] /\ Len(k_list[k]) >= 3

\* C25: for each kind under chunking the orchestrator invokes the
\* hierarchical merger exactly once, on the default batch size, when every
\* chunk of the kind has resolved (from the cache, generated, or as a
\* placeholder); no merge call is made before that; a kind that has
\* returned or raised does nothing more; and the kind leaves the fan-out
\* without the merger only when there is exactly one chunk, whose summary
\* is then its result.
AllResolved(k) == \A i \in DOMAIN w_pc[k] : w_pc[k][i] \in {"done", "failed"}

MergerInvokedOnce(k) ==
    /\ (k_pc[k] # "merge" /\ k_pc'[k] = "merge") =>
          /\ k_pc[k] = "fanout" /\ hm[k] = <<>> /\ ~merge_called[k]
          /\ AllResolved(k)
          /\ Len(k_list'[k]) = PNum
          /\ hm'[k] = <<Frame(k_list'[k], DEFAULT_BATCH_SIZE)>>
    /\ merge_called'[k] => AllResolved(k) /\ k_list'[k] # <<>>
    /\ k_pc[k] \in {"returned", "raised"} => k_pc'[k] = k_pc[k]
    /\ (k_pc[k] = "fanout" /\ k_pc'[k] \notin {"fanout", "merge"}) =>
          /\ PNum = 1 /\ AllResolved(k)
          /\ k_pc'[k] = "returned" /\ k_out'[k] = w_res[k][0].summary

C25_MergerOncePerKind ==
    [][PUse => \A k \in p_kinds : MergerInvokedOnce(k)]_vars

\* C25's case: both kinds ran under chunking and each has been through its
\* one merge
C25_Witness ==
    /\ PUse /\ p_kinds = Kinds
    /\ \A k \in Kinds :
         /\ k_pc[k] = "returned" /\ merge_called[k]
         /\ AllResolved(k) /\ Len(k_list[k]) = PNum

\* C26: no shared variable is written by two chunk workers at a time. Of
\* each kind at most one worker is inside the update of cache_hits and at
\* most one inside the update of cache_misses (between its load and its
\* store of the counter), and chunk_summaries_dict holds an ordinal's result
\* only when that ordinal's worker has completed, as that worker returned it.
InsideUpdate(k, where) == {i \in DOMAIN w_pc[k] : w_pc[k][i] = where}

C26_SingleWriter ==
    \A k \in p_kinds :
      /\ Cardinality(InsideUpdate(k, "hit_store")) <= 1
      /\ Cardinality(InsideUpdate(k, "miss_store")) <= 1
      /\ \A i \in DOMAIN k_dict[k] :
           w_pc[k][i] \in Finished /\ k_dict[k][i] = w_res[k][i].summary

\* C27: two different chunk tasks that execute concurrently never use the
\* same cache key: of tasks that have started and not ended, those with
\* different ordinals of one kind, and those of different kinds, have
\* different keys, whatever the commit list.
Executing == {t \in p_kinds \X ChunkIds : t[2] \in Running(t[1])}

C27_NoSharedCacheKey ==
    \A t, u \in Executing : t # u => ChunkKey(t[1], t[2]) # ChunkKey(u[1], u[2])

\* C28: at every moment at most MAX_CONCURRENT_CHUNKS chunk tasks of one
\* kind are executing, whatever num_chunks is; over the two kinds at most
\* 2 * MAX_CONCURRENT_CHUNKS generation calls are in flight; and a queued
\* chunk starts only when fewer than MAX_CONCURRENT_CHUNKS tasks of its kind
\* are executing.
InFlight(k) ==
    {i \in DOMAIN w_pc[k] :
        w_pc[k][i] \in {"hit", "hit_store", "miss", "miss_store", "gen"}}
Generating(k) == {i \in DOMAIN w_pc[k] : w_pc[k][i] = "gen"}

PoolBounded ==
    /\ \A k \in p_kinds : Cardinality(InFlight(k)) <= MAX_CONCURRENT_CHUNKS
    /\ Cardinality(Generating("technical")) + Cardinality(Generating("business"))
         <= 2 * MAX_CONCURRENT_CHUNKS

TooShort(content) == content.absent \/ content.body < MIN_RESPONSE_CHARS

LastInvalidResponse ==
    /\ r_hist # <<>>
    /\ r_hist[Len(r_hist)].sent
    /\ ~r_hist[Len(r_hist)].reply.error
    /\ TooShort(r_hist[Len(r_hist)].reply.content)

RequestAsClaimed(fn, prompt_chars, text) ==
    /\ RequestChars(fn, text) <= MaxChars(fn) + MarkerChars(fn)
    /\ prompt_chars <= MaxChars(fn) => text = [head |-> prompt_chars, marker |-> FALSE]
    /\ prompt_chars > MaxChars(fn) => text = [head |-> MaxChars(fn), marker |-> TRUE]
    /\ RequestChars(fn, text) \div CHARS_PER_TOKEN <= MAX_ESTIMATED_TOKENS

C30_RequestCeiling ==
    t_fn \in WrappedFunctions =>
      \A j \in DOMAIN t_out : RequestAsClaimed(t_fn, t_in.prompt, t_out[j])

\* C30's case: a prompt above the ceiling went out cut and marked, on a
\* first attempt and again on a retry
C30_Witness ==
    /\ t_fn \in WrappedFunctions
    /\ t_in.prompt > MaxChars(t_fn)
    /\ Len(t_out) >= 2
    /\ t_out[2] = [head |-> MaxChars(t_fn), marker |-> TRUE]

\* the positions of the character c in the text s
PositionsOf(s, c) == {p \in 1..Len(s) : s[p] = c}

\* the i-th of the pieces into which the occurrences of c cut the text s:
\* it starts after the (i-1)-th occurrence and ends before the i-th
PieceOf(s, c, i) ==
    LET P    == PositionsOf(s, c)
        from == CHOOSE p \in P \cup {0} :
                    Cardinality({q \in P : q <= p}) = i - 1
        to   == CHOOSE p \in P \cup {Len(s) + 1} :
                    Cardinality({q \in P : q < p}) = i - 1
    IN  SubSeq(s, from + 1, to - 1)

\* the text without the whitespace around it
Trimmed(s) ==
    LET inside == {p \in 1..Len(s) : s[p] \notin Whitespace}
    IN  IF inside = {} THEN <<>>
        ELSE SubSeq(s, CHOOSE p \in inside : \A q \in inside : p <= q,
                       CHOOSE p \in inside : \A q \in inside : q <= p)

\* the number of lines of a non-empty text
LineCount(s) == Cardinality(PositionsOf(s, "\n")) + 1

\* the two entries the claim gives a line
EntriesAsClaimed(line) ==
    IF Cardinality(PositionsOf(line, "|")) + 1 >= 5
    THEN LET full_hash  == PieceOf(line, "|", 1)
             subject    == PieceOf(line, "|", 2)
             author     == PieceOf(line, "|", 3)
             date       == PieceOf(line, "|", 4)
             short_hash == PieceOf(line, "|", 5)
         IN  [formatted |-> <<Bullet, " ">> \o subject \o <<" ", "(">> \o author
                                \o <<",", " ">> \o date \o <<")">>,
              link |-> <<"-", " ", "[">> \o short_hash \o <<"]", "(">>
                           \o RepoUrl \o <<"/", "commit", "/">> \o full_hash
                           \o <<")", " ">> \o subject \o <<" ", "-", " ">>
                           \o author]
    ELSE [formatted |-> <<Bullet, " ">> \o line, link |-> <<"-", " ">> \o line]

\* C31: process_commits_in_chunks returns two lists with exactly one entry
\* per line of the non-empty input (the text without the whitespace around
\* it), in input order: a line with at least five pipe-delimited fields is
\* formatted from its first five fields, a line with fewer is kept as its
\* raw text, and empty input gives two empty lists.
C31_OneEntryPerLine ==
    (t_fn = "process_commits_in_chunks" /\ t_out # <<>>) =>
        LET text == Trimmed(t_in.commits_raw)
            out  == t_out[1]
        IN  IF text = <<>>
            THEN out.formatted = <<>> /\ out.links = <<>>
            ELSE /\ Len(out.formatted) = LineCount(text)
                 /\ Len(out.links) = LineCount(text)
                 /\ \A i \in 1..LineCount(text) :
                      LET claimed == EntriesAsClaimed(PieceOf(text, "\n", i))
                      IN  /\ out.formatted[i] = claimed.formatted
                          /\ out.links[i] = claimed.link

\* a call on three lines cut into two slices: a line of five fields, a line
\* with a pipe and fewer fields, and a line without a pipe
C31_Witness ==
    /\ t_fn = "process_commits_in_chunks" /\ t_out # <<>>
    /\ t_in.chunk_size = 2
    /\ t_in.commits_raw = <<"|", "|", "|", "|", "\n", "|", "\n", "a">>
    /\ Len(t_out[1].formatted) = 3
    /\ t_out[1].formatted[2] = <<Bullet, " ", "|">>

\* the run just made found the header of its week in the file
FoundDuplicate ==
    /\ f_runs' = f_runs + 1
    /\ changelog.exists
    /\ HeaderPresent(changelog.lines, f_last'.week_num)

\* the entries whose header is the header of the week
EntriesOfWeek(lines, week_num) ==
    {lines[j].entry : j \in {i \in 1..Len(lines) :
                                StartsWithWeekHeader(lines[i], week_num)}}

\* the lines that the run e wrote, in the order they have in the file
LinesOfEntry(lines, e) ==
    LET WrittenByE(line) == line.entry = e
    IN  SelectSeq(lines, WrittenByE)

AllEntries(lines) == {lines[j].entry : j \in 1..Len(lines)} \ {0}

\* no line of the week's earlier entries is left
OldEntryRemoved ==
    \A e \in EntriesOfWeek(changelog.lines, f_last'.week_num) :
        LinesOfEntry(changelog'.lines, e) = <<>>

OneEntryForWeek ==
    Cardinality({j \in 1..Len(changelog'.lines) :
                    StartsWithWeekHeader(changelog'.lines[j],
                                         f_last'.week_num)}) = 1

OtherEntriesUnchanged ==
    \A e \in AllEntries(changelog.lines)
                \ EntriesOfWeek(changelog.lines, f_last'.week_num) :
        LinesOfEntry(changelog'.lines, e) = LinesOfEntry(changelog.lines, e)

\* C32: when the file already holds the header of the current week, a run
\* without force exits and leaves CHANGELOG.md as it is, and a run with force
\* removes every line of the week's existing entry, from its header to its
\* closing separator, before it inserts the new entry: afterwards the file
\* holds exactly one entry for the week and the entries of the other weeks
\* are unchanged.
C32_DeduplicatedByWeek ==
    [][FoundDuplicate =>
           IF ~f_last'.force_update
           THEN f_last'.outcome = "exit" /\ changelog' = changelog
           ELSE /\ f_last'.outcome = "written"
                /\ OldEntryRemoved
                /\ OneEntryForWeek
                /\ OtherEntriesUnchanged]_vars

\* the activations of hierarchical_merge_summaries of a kind
Activations(k) == {hm[k][j] : j \in 1..Len(hm[k])}

\* C33: when hierarchical_merge_summaries is first called with a batch_size
\* of at least 2, every recursive call it makes (one smaller after a failed
\* direct merge, two smaller after a batch split, the same for the next
\* level) has a batch_size of at least 2 as well.
C33_BatchSizeAtLeastTwo ==
    \A k \in p_kinds : \A f \in Activations(k) : f.bs >= 2

\* an activation for a half of a batch, called with batch_size 2 by an
\* activation with batch_size 3, where batch_size - 2 is 1
C33_Witness ==
    \E k \in p_kinds :
        /\ Len(hm[k]) >= 2
        /\ Top(hm[k]).bs = 2
        /\ hm[k][Len(hm[k]) - 1].bs = 3
        /\ hm[k][Len(hm[k]) - 1].pc = "split"

\* the summaries the merger was first called with
GivenSummaries(k) == {k_list[k][j] : j \in 1..Len(k_list[k])}

\* C34: when hierarchical_merge_summaries is called with at least two
\* summaries and returns, what it returns is the validated output of a merge
\* call; a chunk summary or a failure placeholder that went through a level
\* unmerged (the single-element half of a split batch) is never the result.
C34_ResultIsMerged ==
    \A k \in p_kinds :
        (k_pc[k] = "returned" /\ Len(k_list[k]) >= 2) =>
            /\ k_out[k] = Merged(k)
            /\ k_out[k] \notin GivenSummaries(k)

\* the outermost activation is at a level whose list holds a summary that
\* came through the level below unmerged next to a merged one, and the
\* merge of that list succeeds and is returned
C34_Witness ==
    \E k \in p_kinds :
        /\ k_pc[k] = "merge" /\ Len(hm[k]) = 1
        /\ Top(hm[k]).pc = "entry"
        /\ \E j \in 1..Len(Top(hm[k]).sums) :
             Top(hm[k]).sums[j] \in GivenSummaries(k)
        /\ \E j \in 1..Len(Top(hm[k]).sums) : Top(hm[k]).sums[j] = Merged(k)
        /\ \E r \in p_api :
             /\ HmStep(hm[k], k, r).done = "returned"
             /\ HmStep(hm[k], k, r).val = Merged(k)

\* the keys whose file is created or gets another content in the step
KeysWritten ==
    {key \in DOMAIN cache' : key \notin DOMAIN cache \/ cache'[key] # cache[key]}

\* the step is the chunk task i of kind k storing, under its own key, the
\* summary that its generate_summary call has just returned for it
WrittenByGenerator(k, i, key) ==
    /\ ChunkKey(k, i) = key
    /\ w_pc[k][i] = "gen" /\ w_pc'[k][i] = "done"
    /\ w_gen[k][i] = 0 /\ w_gen'[k][i] = 1
    /\ ~w_res'[k][i].cached
    /\ w_res'[k][i].summary = cache'[key]
    /\ cache'[key] = Generated(k, i + 1, RangeLo(i), RangeHi(i), ChunkText(i))

\* the step is a chunk task answered from the cache, or one that fails
HitOrFailure(k, i) ==
    \/ w_pc[k][i] = "queued" /\ w_pc'[k][i] = "hit"
    \/ w_pc[k][i] = "gen" /\ w_pc'[k][i] = "failed"

WritesAsClaimed ==
    /\ \A key \in KeysWritten :
         \E k \in p_kinds : \E i \in ChunkIds : WrittenByGenerator(k, i, key)
    /\ DOMAIN cache \subseteq DOMAIN cache'
    /\ (\E k \in p_kinds : \E i \in ChunkIds : HitOrFailure(k, i)) =>
           cache' = cache
    /\ \A key \in DOMAIN cache' : cache'[key].how \in {"prior", "generated"}

\* C35: a failure placeholder is never written to the cache: the only values
\* written under a chunk's key are summaries that the generator returned
\* successfully for the chunk, a chunk task writes at most once, and a cache
\* hit or a failed chunk writes nothing, so that a failed chunk is generated
\* again by the next run.
C35_OnlyGeneratedSummariesCached == [][WritesAsClaimed]_vars

\* a run in which one chunk has failed and another has stored its summary:
\* the cache holds the summary and no entry for the failed chunk
C35_Witness ==
    \E k \in p_kinds : \E i, j \in ChunkIds :
        /\ w_pc[k][i] = "failed"
        /\ w_res[k][i].summary.how = "placeholder"
        /\ ChunkKey(k, i) \notin DOMAIN cache
        /\ w_pc[k][j] = "done" /\ ~w_res[k][j].cached
        /\ ChunkKey(k, j) \in DOMAIN cache
        /\ cache[ChunkKey(k, j)] = w_res[k][j].summary

\* every chunk worker of the kind has completed and the statistics line has
\* been printed
StatisticsReported(k) ==
    /\ PUse
    /\ k_seen[k] = ChunkIds
    /\ k_pc[k] \in {"merge", "returned", "raised"}

\* C36: after all chunk workers of a kind have completed, the counters
\* reported satisfy cache_hits + cache_misses = num_chunks, whatever the
\* interleaving of the workers' updates of the two counters.
C36_CountersAddUp ==
    \A k \in p_kinds :
        StatisticsReported(k) => cache_hits[k] + cache_misses[k] = PNum

\* the categories that have markers, in the order of the claim
Precedence == <<"rate", "auth", "notfound", "large", "network">>

\* the first category, in that order, of which the message has a marker
CategoryOf(marks) ==
    IF \E j \in 1..Len(Precedence) : Precedence[j] \in marks
    THEN Precedence[CHOOSE j \in 1..Len(Precedence) :
                        /\ Precedence[j] \in marks
                        /\ \A h \in 1..(j - 1) : Precedence[h] \notin marks]
    ELSE "generic"

\* the wrapper has slept and will invoke the function again
Retried(w, w2) ==
    /\ w2.pc = "call" /\ w2.attempt = w.attempt + 1 /\ w2.sleeps = w.sleeps + 1

\* the wrapper has raised, with the label in front of the message
RaisedAs(w, w2, label) ==
    /\ w2.pc = "raised" /\ w2.exc.label = label /\ w2.sleeps = w.sleeps

\* what the wrapper in state w does with a failure of the category
HandledAs(category, w, w2, last) ==
    CASE category = "rate" ->
             IF last THEN RaisedAs(w, w2, "Rate limit exceeded")
             ELSE Retried(w, w2)
      [] category = "auth" -> RaisedAs(w, w2, "Authentication error")
      [] category = "notfound" -> RaisedAs(w, w2, "Model availability error")
      [] category = "large" -> RaisedAs(w, w2, "Payload too large error")
      [] category = "network" ->
             IF last THEN RaisedAs(w, w2, "Network error") ELSE Retried(w, w2)
      [] category = "generic" ->
             IF last THEN RaisedAs(w, w2, "unlabelled") ELSE Retried(w, w2)

\* C37: the retry wrapper handles each failure in exactly one category, the
\* first that matches in the order rate-limit, authentication, not-found,
\* payload-too-large, network, generic: a message with the markers of
\* several categories is handled as the first of them only.
C37_CategoryPrecedence ==
    [][(Len(r_hist') = Len(r_hist) + 1 /\ ~r_hist'[Len(r_hist')].ok) =>
           HandledAs(CategoryOf(r_hist'[Len(r_hist')].marks), rw, rw',
                     rw.attempt = r_max - 1)]_vars

\* a failure whose message has a rate-limit and an authentication marker,
\* not on the last attempt: the wrapper has slept and is about to call again
C37_Witness ==
    /\ r_hist # <<>>
    /\ ~r_hist[Len(r_hist)].ok
    /\ {"rate", "auth"} \subseteq r_hist[Len(r_hist)].marks
    /\ rw.pc = "call"
    /\ rw.sleeps = Len(r_hist)

\* the categories of failure after which the wrapper calls again
RetryableCategories == {"rate", "network", "generic"}

\* one invocation of the wrapped function and what follows it, as claimed
SleepAsClaimed ==
    LET o     == r_hist'[Len(r_hist')]
        last  == rw.attempt = r_max - 1
        retry == ~o.ok /\ CategoryOf(o.marks) \in RetryableCategories /\ ~last
    IN  /\ rw'.calls = rw.calls + 1
        /\ rw'.sleeps = rw.sleeps + (IF retry THEN 1 ELSE 0)
        /\ retry <=> (rw'.pc = "call" /\ rw'.attempt < r_max)
        /\ rw'.pc # "call" => rw'.sleeps = rw'.calls - 1

\* C38: a backoff sleep happens only between two consecutive invocations of
\* the wrapped function: exactly one sleep follows each retryable failure
\* that is not on the last attempt, and none follows a success, a
\* non-retryable failure or the failure of the last attempt, so that the
\* sleeps of a finished call number one less than the invocations.
C38_SleepsBetweenInvocations ==
    [][Len(r_hist') = Len(r_hist) + 1 => SleepAsClaimed]_vars

\* three invocations, all failing in a retryable category, and two sleeps:
\* none after the failure of the last attempt
C38_Witness ==
    /\ r_max = 3
    /\ rw.pc = "raised"
    /\ rw.calls = 3
    /\ rw.sleeps = 2
    /\ r_hist[1].marks = {"rate"}
    /\ r_hist[2].marks = {}
    /\ r_hist[3].marks = {"network"}

\* the file of the key was in the directory when the run started, older than
\* the 48 hours, and the sweep could list the directory, read the file's
\* modification time and delete the file
StaleAtStart(key) ==
    /\ key \in DOMAIN t_in.entries
    /\ t_in.dir = "ok"
    /\ t_in.entries[key].access = "ok"
    /\ t_in.entries[key].file_age >
           STARTUP_MAX_AGE_HOURS * SECONDS_PER_HOUR

\* the chunk task has read its cache file
HasRead(k, i) == w_pc[k][i] # "queued"

\* the chunk task was answered with a file of an earlier run
ServedFromEarlierRun(k, i) ==
    w_res[k][i].cached /\ w_res[k][i].summary.how = "prior"

\* the step is the chunk task being answered from the cache
ServingHit(k, i) == w_pc[k][i] = "queued" /\ w_pc'[k][i] = "hit"

\* C39: the sweep of the stale entries runs once at startup, before any
\* cache read of the run, and an entry's age counts from its last write: a
\* cache entry that is older than 48 hours when the run starts, and that the
\* sweep could delete, is never served as a cache hit in the run, and
\* serving a hit leaves the entry and its age as they were.
C39_StaleEntryNeverServed ==
    [][/\ \A k \in p_kinds : \A i \in ChunkIds :
            /\ HasRead(k, i)' => StartupOver'
            /\ ServedFromEarlierRun(k, i)' => ~StaleAtStart(ChunkKey(k, i))'
            /\ ServingHit(k, i) => cache' = cache /\ t_in' = t_in
       /\ t_out.pc \in {"returned", "raised"} => t_out' = t_out]_vars

\* a run on two chunks whose files were both in the directory, one older
\* than 48 hours and one not: the sweep has removed the first, whose chunk
\* was generated, and the second was served from the cache
C39_Witness ==
    \E k \in p_kinds : \E i, j \in ChunkIds :
        /\ StaleAtStart(ChunkKey(k, i))
        /\ w_pc[k][i] = "done" /\ ~w_res[k][i].cached
        /\ ChunkKey(k, j) \in DOMAIN t_in.entries
        /\ ~StaleAtStart(ChunkKey(k, j))
        /\ ServedFromEarlierRun(k, j)
        /\ t_out.removed_count = 1
====
